---- MODULE Spec2Model ----
(***************************************************************************)
(* Model of the workflow transformation engine of ctrl_bps                 *)
(* (python/lsst/ctrl/bps/transform.py).                                    *)
(*                                                                         *)
(* Part 1, job-attribute aggregation: _get_job_values turns the result of  *)
(* the configuration searches of one execution unit into a unit record,    *)
(* and _handle_job_values folds a unit record into a cluster job.          *)
(*                                                                         *)
(* Encoding of Python values.  Every attribute value is an integer:        *)
(*   None      Python's None                                               *)
(*   NotFound  config.search returned found = False (no value)             *)
(*   0         a value that is falsy in Python (0, False, "")              *)
(*   n > 0     a truthy value; distinct numbers are distinct values        *)
(* memory_multiplier is a float in the code; it is kept here in tenths     *)
(* (15 is 1.5), so that math.ceil is computed, not assumed.                *)
(*                                                                         *)
(* Part 2, the final job: add_final_job selects _add_final_job or          *)
(* _add_merge_job from the configuration and the handler creates the job   *)
(* and attaches it to the generic workflow.  Configuration values are      *)
(* strings, kept as sequences of characters so that str.upper is computed. *)
(* create_generic_workflow calls it on the workflow it has constructed.    *)
(*                                                                         *)
(* Part 3, command templating: _enhance_command marks the files and        *)
(* gathers the values of a job's argument string, and _fill_arguments      *)
(* fills them in when lazy commands are off.                               *)
(*                                                                         *)
(* Part 4, the value resolver: BpsConfig.search with its search order,     *)
(* its subsections, its defaults and its template options, as the tests    *)
(* of tests/test_bpsconfig.py pin it.                                      *)
(*                                                                         *)
(* Part 5, a submission: BpsCore.create_submission                         *)
(* (python/lsst/ctrl/bps/bps_core.py) from the quantum graph file to the   *)
(* backend, with the workflow graph and its init nodes, and transform.     *)
(***************************************************************************)
EXTENDS Integers, Sequences, FiniteSets, TLC

VARIABLES
    found,        \* what config.search finds during a call of _get_job_values
    job_values,   \* the unit record returned by _get_job_values
    gwjob,        \* the cluster job the unit records are folded into
    before,       \* gwjob as it was when the last fold started
    folded,       \* the unit records handed to _handle_job_values so far
    err,          \* the exception that ended the last call, or "none"
    pc,           \* the call that is next ("done": none)
    config,       \* the BpsConfig entries that add_final_job reads
    generic_workflow,   \* the GenericWorkflow the final job is added to
    func,         \* the handler add_final_job's dispatch loop selected
    invoked,      \* the handlers add_final_job has called, in order
    environ,      \* os.environ of the submit side: the variables that are set
    request,      \* the key and the options of a call of BpsConfig.search,
                  \* or the entry point of a submission
    self,         \* the BpsCore object: its attributes
    result        \* what the call under way has returned, or "none"

aggvars == <<found, job_values, gwjob, before, folded>>

finalvars == <<config, generic_workflow, func, invoked>>

vars == <<found, job_values, gwjob, before, folded, err, pc,
          config, generic_workflow, func, invoked, environ,
          request, self, result>>

corevars == <<request, self, result>>

\* Python's None.
None == -1

\* config.search returned (False, ...): the key is not configured.
NotFound == -2

\* Number of unit records folded into one cluster job.
MaxFold == 2

\* DEFAULT_MEM_RETRIES of the package's constants, imported by transform.py.
DEFAULT_MEM_RETRIES == 5

(***************************************************************************)
(* The attribute classes.                                                  *)
(***************************************************************************)
ATTRS_MAX ==
    {"memory_multiplier", "number_of_retries", "request_cpus",
     "request_memory", "request_memory_max"}

ATTRS_SUM ==
    {"request_disk", "request_walltime"}

\* The universal attributes are all fields of GenericWorkflowJob outside the
\* max, sum and misc classes; two of them are kept: one holding strings
\* (compute_site) and one holding booleans (preemptible).
ATTRS_UNIVERSAL ==
    {"compute_site", "preemptible"}

ATTRS_ALL ==
    ATTRS_UNIVERSAL \cup ATTRS_MAX \cup ATTRS_SUM

\* GenericWorkflowJob("name"): every modelled attribute defaults to None.
default_gwjob ==
    [a \in ATTRS_ALL |-> None]

\* Python truthiness: "not value".
Falsy(value) ==
    value = None \/ value = 0

\* math.ceil(float(tenths / 10)).
ceil(tenths) ==
    (tenths + 9) \div 10

\* The iteration orders of a Python set: every arrangement of its elements.
Orders(S) ==
    {o \in [1..Cardinality(S) -> S] : \A i, j \in 1..Cardinality(S) : o[i] = o[j] => i = j}

UniversalOrders ==
    Orders(ATTRS_UNIVERSAL)

\* The pass for request_memory also assigns memory_multiplier and
\* number_of_retries, so these three are visited in every order.  The passes
\* for request_cpus and request_memory_max read and assign their own attribute
\* only and commute with every other pass: they are visited first.
MaxOrders ==
    {<<"request_cpus", "request_memory_max">> \o o :
        o \in Orders({"request_memory", "memory_multiplier", "number_of_retries"})}

SumOrders ==
    Orders(ATTRS_SUM)

(***************************************************************************)
(* _get_job_values (cmd_line_key None).                                    *)
(***************************************************************************)
\* The loop over _ATTRS_ALL: the value found, else the default job's value.
searched_values(cfg) ==
    [a \in ATTRS_ALL |-> IF cfg[a] # NotFound THEN cfg[a] ELSE default_gwjob[a]]

\* Mutant of memory_scaling: no default number of retries is assigned.
memory_scaling_no_default(values) ==
    IF values["memory_multiplier"] # None /\ ceil(values["memory_multiplier"]) <= 1
    THEN [values EXCEPT !["memory_multiplier"] = None]
    ELSE values

\* Mutant of memory_scaling: an invalid multiplier is not cleared.
memory_scaling_keeps_invalid(values) ==
    IF values["memory_multiplier"] # None /\ values["number_of_retries"] = None
    THEN [values EXCEPT !["number_of_retries"] = DEFAULT_MEM_RETRIES]
    ELSE values

\* The automatic memory scaling rule applied to the searched values.
memory_scaling(values) ==
    IF values["memory_multiplier"] # None
    THEN IF ceil(values["memory_multiplier"]) > 1
         THEN IF values["number_of_retries"] = None
              THEN [values EXCEPT !["number_of_retries"] = DEFAULT_MEM_RETRIES]
              ELSE values
         ELSE [values EXCEPT !["memory_multiplier"] = None]
    ELSE values

get_job_values(cfg) ==
    memory_scaling(searched_values(cfg))

(***************************************************************************)
(* _handle_job_values and its three handlers.  A handler returns the job   *)
(* as it leaves it and the exception that ended it ("none" if it returned  *)
(* normally); an exception leaves the assignments already made in place.   *)
(* "order" is the order in which the handler's "for attr in <set>" visits  *)
(* the attributes.                                                         *)
(***************************************************************************)
Returned(job) ==
    [job |-> job, err |-> "none"]

Raised(job, exception) ==
    [job |-> job, err |-> exception]

\* One pass of the loop body of _handle_job_values_universal.
universal_step(quantum_job_values, job, attr) ==
    LET current_value == job[attr]
    IN  IF attr \notin DOMAIN quantum_job_values
        THEN Returned(job)
        ELSE LET quantum_value == quantum_job_values[attr]
             IN  IF Falsy(current_value)
                 THEN Returned([job EXCEPT ![attr] = quantum_value])
                 ELSE IF current_value # quantum_value
                      THEN Raised(job, "RuntimeError")
                      ELSE Returned(job)

\* Mutant of needs_update: the record's None is not told from a value.
needs_update_without_none_check(current_value, quantum_value) ==
    current_value = None \/ quantum_value = None \/ current_value < quantum_value

\* The decision of _handle_job_values_max whether the job's value is replaced.
needs_update(current_value, quantum_value) ==
    IF current_value = None
    THEN quantum_value # None
    ELSE quantum_value # None /\ current_value < quantum_value

\* Mutant of copy_memory_scaling: number_of_retries is copied in every case.
copy_memory_scaling_unconditionally(quantum_job_values, job) ==
    Returned([job EXCEPT !["memory_multiplier"] = quantum_job_values["memory_multiplier"],
                         !["number_of_retries"] = quantum_job_values["number_of_retries"]])

\* The statements under 'if attr == "request_memory"'.
copy_memory_scaling(quantum_job_values, job) ==
    IF "memory_multiplier" \notin DOMAIN quantum_job_values
    THEN Raised(job, "KeyError")
    ELSE LET copied == [job EXCEPT !["memory_multiplier"] =
                                       quantum_job_values["memory_multiplier"]]
         IN  IF copied["memory_multiplier"] # None
             THEN IF "number_of_retries" \notin DOMAIN quantum_job_values
                  THEN Raised(copied, "KeyError")
                  ELSE Returned([copied EXCEPT !["number_of_retries"] =
                                                  quantum_job_values["number_of_retries"]])
             ELSE Returned(copied)

\* One pass of the loop body of _handle_job_values_max.
max_step(quantum_job_values, job, attr) ==
    IF attr \notin DOMAIN quantum_job_values
    THEN Returned(job)
    ELSE IF needs_update(job[attr], quantum_job_values[attr])
         THEN LET updated == [job EXCEPT ![attr] = quantum_job_values[attr]]
              IN  IF attr = "request_memory"
                  THEN copy_memory_scaling(quantum_job_values, updated)
                  ELSE Returned(updated)
         ELSE Returned(job)

\* One pass of the loop body of _handle_job_values_sum.
sum_step(quantum_job_values, job, attr) ==
    LET current_value == job[attr]
    IN  IF attr \notin DOMAIN quantum_job_values
        THEN Raised(job, "KeyError")
        ELSE IF Falsy(current_value)
             THEN Returned([job EXCEPT ![attr] = quantum_job_values[attr]])
             ELSE IF quantum_job_values[attr] = None
                  THEN Raised(job, "TypeError")
                  ELSE Returned([job EXCEPT ![attr] = current_value + quantum_job_values[attr]])

RECURSIVE universal_loop(_, _, _)
universal_loop(quantum_job_values, job, order) ==
    IF order = <<>>
    THEN Returned(job)
    ELSE LET r == universal_step(quantum_job_values, job, Head(order))
         IN  IF r.err # "none" THEN r
             ELSE universal_loop(quantum_job_values, r.job, Tail(order))

RECURSIVE max_loop(_, _, _)
max_loop(quantum_job_values, job, order) ==
    IF order = <<>>
    THEN Returned(job)
    ELSE LET r == max_step(quantum_job_values, job, Head(order))
         IN  IF r.err # "none" THEN r
             ELSE max_loop(quantum_job_values, r.job, Tail(order))

RECURSIVE sum_loop(_, _, _)
sum_loop(quantum_job_values, job, order) ==
    IF order = <<>>
    THEN Returned(job)
    ELSE LET r == sum_step(quantum_job_values, job, Head(order))
         IN  IF r.err # "none" THEN r
             ELSE sum_loop(quantum_job_values, r.job, Tail(order))

\* "for attr in <class> & set(attributes)", visited in the given order.
Visited(order, attributes) ==
    SelectSeq(order, LAMBDA a : a \in attributes)

handle_job_values_universal(quantum_job_values, job, attributes, order) ==
    universal_loop(quantum_job_values, job, Visited(order, attributes))

handle_job_values_max(quantum_job_values, job, attributes, order) ==
    max_loop(quantum_job_values, job, Visited(order, attributes))

handle_job_values_sum(quantum_job_values, job, attributes, order) ==
    sum_loop(quantum_job_values, job, Visited(order, attributes))

\* The three handlers in sequence; an exception ends the call.
handle_job_values(quantum_job_values, job, attributes, uo, mo, so) ==
    LET u == handle_job_values_universal(quantum_job_values, job, attributes, uo)
    IN  IF u.err # "none" THEN u
        ELSE LET m == handle_job_values_max(quantum_job_values, u.job, attributes, mo)
             IN  IF m.err # "none" THEN m
                 ELSE handle_job_values_sum(quantum_job_values, m.job, attributes, so)

\* What one call can do: the results over every order of visiting the sets.
handle_job_values_outcomes(quantum_job_values, job, attributes) ==
    {handle_job_values(quantum_job_values, job, attributes, uo, mo, so) :
        uo \in UniversalOrders, mo \in MaxOrders, so \in SumOrders}

(***************************************************************************)
(* The configurations of one execution unit: what config.search finds for  *)
(* each attribute.  Each configuration sets the attributes of one class.   *)
(***************************************************************************)
NothingFound ==
    [a \in ATTRS_ALL |-> NotFound]

UniversalConfigs ==
    {[NothingFound EXCEPT !["compute_site"] = s, !["preemptible"] = p] :
        s \in {NotFound, 1, 2}, p \in {NotFound, 0, 1}}

CpuConfigs ==
    {[NothingFound EXCEPT !["request_cpus"] = c, !["request_memory_max"] = x] :
        c \in {NotFound, 1, 2}, x \in {NotFound, 1, 2}}

MemoryConfigs ==
    {[NothingFound EXCEPT !["request_memory"] = m, !["memory_multiplier"] = k,
                          !["number_of_retries"] = r] :
        m \in {NotFound, 2048, 4096}, k \in {NotFound, 10, 15, 20}, r \in {NotFound, 3}}

SumConfigs ==
    {[NothingFound EXCEPT !["request_disk"] = d, !["request_walltime"] = w] :
        d \in {NotFound, 0, 1, 2}, w \in {NotFound, 1}}

UnitConfigs ==
    UniversalConfigs \cup CpuConfigs \cup MemoryConfigs \cup SumConfigs

(***************************************************************************)
(* The state machine of the aggregation: a fresh job, then for each unit   *)
(* _get_job_values followed by _handle_job_values, until a fold raises.    *)
(***************************************************************************)
InitAgg ==
    /\ found = NothingFound
    /\ job_values = default_gwjob
    /\ gwjob = default_gwjob
    /\ before = default_gwjob
    /\ folded = <<>>
    /\ request = <<>>
    /\ self = <<>>
    /\ result = "none"
    /\ environ = {}
    /\ err = "none"
    /\ pc = "get"
    /\ config = <<>>
    /\ generic_workflow = [jobs |-> {}, edges |-> {}, final |-> "none",
                           files |-> {}, inputs |-> {}]
    /\ func = "none"
    /\ invoked = <<>>

GetJobValues(cfg) ==
    /\ pc = "get"
    /\ err = "none"
    /\ Len(folded) < MaxFold
    /\ found' = cfg
    /\ job_values' = get_job_values(cfg)
    /\ pc' = "fold"
    /\ UNCHANGED <<gwjob, before, folded, err>>
    /\ UNCHANGED finalvars
    /\ UNCHANGED environ
    /\ UNCHANGED corevars

\* The call _handle_job_values(job_values, gwjob) with the default attributes
\* (_ATTRS_ALL); each handler visits its attributes in some order.
HandleJobValues ==
    /\ pc = "fold"
    /\ \E r \in handle_job_values_outcomes(job_values, gwjob, ATTRS_ALL) :
          /\ gwjob' = r.job
          /\ err' = r.err
    /\ before' = gwjob
    /\ folded' = Append(folded, job_values)
    /\ found' = NothingFound
    /\ pc' = "get"
    /\ UNCHANGED job_values
    /\ UNCHANGED finalvars
    /\ UNCHANGED environ
    /\ UNCHANGED corevars

NextAgg ==
    \/ \E cfg \in UnitConfigs : GetJobValues(cfg)
    \/ HandleJobValues

SpecAgg ==
    InitAgg /\ [][NextAgg]_vars

(***************************************************************************)
(* Properties of the aggregation.                                          *)
(***************************************************************************)
\* The record of the last fold.
LastFolded ==
    folded[Len(folded)]

\* The values other than None that the folded records hold for an attribute.
Supplied(attr) ==
    {folded[i][attr] : i \in 1..Len(folded)} \ {None}

MaxOf(S) ==
    CHOOSE m \in S : \A x \in S : x <= m

RECURSIVE SumFrom(_, _)
SumFrom(attr, i) ==
    IF i > Len(folded) THEN 0
    ELSE (IF folded[i][attr] = None THEN 0 ELSE folded[i][attr]) + SumFrom(attr, i + 1)

\* The results of folding a sequence of records, one after the other, into job.
RECURSIVE fold_outcomes(_, _)
fold_outcomes(records, job) ==
    IF records = <<>>
    THEN {Returned(job)}
    ELSE UNION {IF r.err # "none" THEN {r} ELSE fold_outcomes(Tail(records), r.job) :
                   r \in handle_job_values_outcomes(Head(records), job, ATTRS_ALL)}

\* The last fold replaced the job's request_memory by a larger value.
MemoryRaised ==
    /\ Len(folded) > 0
    /\ gwjob["request_memory"] # before["request_memory"]

\* C1: for every universal attribute, folding a record that supplies a value
\* different from the value an earlier record set on the job raises the
\* inconsistency error (RuntimeError), whatever the value set is; and when
\* the fold returns normally the job still holds the value set first.
C1_UniversalMismatchRaises ==
    Len(folded) > 0 =>
        \A attr \in ATTRS_UNIVERSAL :
            (/\ before[attr] # None
             /\ LastFolded[attr] # None
             /\ LastFolded[attr] # before[attr])
                => /\ err = "RuntimeError"
                   /\ gwjob[attr] = before[attr]

\* C2: after any folds that returned normally, each of request_cpus,
\* request_memory and request_memory_max is the maximum of the values other
\* than None that the folded records hold for it, and None if there is none.
C2_RequestIsMaxOfSupplied ==
    err = "none" =>
        \A attr \in {"request_cpus", "request_memory", "request_memory_max"} :
            gwjob[attr] = IF Supplied(attr) = {} THEN None ELSE MaxOf(Supplied(attr))

\* C2 witness: a record holding None for request_memory was folded after
\* one holding a value, and the job kept the value.
C2_Witness ==
    /\ Len(folded) = 2
    /\ err = "none"
    /\ folded[1]["request_memory"] = 4096
    /\ folded[2]["request_memory"] = None
    /\ gwjob["request_memory"] = 4096

\* C3 as stated: whenever a fold raises request_memory, the job's
\* memory_multiplier and number_of_retries both equal the folded record's.
C3_BothScalingAttrsCopied ==
    MemoryRaised =>
        /\ gwjob["memory_multiplier"] = LastFolded["memory_multiplier"]
        /\ gwjob["number_of_retries"] = LastFolded["number_of_retries"]

\* C3 amended: whenever a fold raises request_memory, the job's
\* memory_multiplier equals the folded record's (also when that is None);
\* number_of_retries equals the folded record's when the record's
\* memory_multiplier is not None, and otherwise follows the max rule alone:
\* it is the record's value if that is larger than the job's (or the job
\* had none), else the job's previous value.
C3_ScalingCopiedWhenEnabled ==
    MemoryRaised =>
        /\ gwjob["memory_multiplier"] = LastFolded["memory_multiplier"]
        /\ LastFolded["memory_multiplier"] # None
               => gwjob["number_of_retries"] = LastFolded["number_of_retries"]
        /\ LastFolded["memory_multiplier"] = None
               => gwjob["number_of_retries"] =
                      IF needs_update(before["number_of_retries"],
                                      LastFolded["number_of_retries"])
                      THEN LastFolded["number_of_retries"]
                      ELSE before["number_of_retries"]

\* C3 witness: a fold raised request_memory with a record without multiplier
\* and switched scaling off, the job keeping a number of retries that is
\* not the record's.
C3_Witness ==
    /\ MemoryRaised
    /\ before["memory_multiplier"] # None
    /\ LastFolded["memory_multiplier"] = None
    /\ gwjob["memory_multiplier"] = None
    /\ gwjob["number_of_retries"] # LastFolded["number_of_retries"]

\* C4: after folds that returned normally, if one folded record has the
\* strictly largest request_memory, the job's memory_multiplier is that
\* record's memory_multiplier (scaling is on exactly if that record has one).
C4_LargestMemoryDecidesScaling ==
    err = "none" =>
        \A i \in 1..Len(folded) :
            (/\ folded[i]["request_memory"] # None
             /\ \A j \in 1..Len(folded) :
                    j # i => \/ folded[j]["request_memory"] = None
                             \/ folded[j]["request_memory"] < folded[i]["request_memory"])
                => gwjob["memory_multiplier"] = folded[i]["memory_multiplier"]

\* C5: folding two records A then B leaves the same max-class values on the
\* job as folding B then A (compared when both folds return normally).
C5_MaxMergeOrderIndependent ==
    (Len(folded) = 2 /\ err = "none") =>
        \A r \in fold_outcomes(<<folded[2], folded[1]>>, default_gwjob) :
            r.err = "none" => \A attr \in ATTRS_MAX : r.job[attr] = gwjob[attr]

\* C6: folding any sequence of records succeeds as far as the sum class is
\* concerned, and request_disk and request_walltime are each the sum of the
\* values the folded records supply (None while no record supplied one).
C6_SumOfSupplied ==
    Len(folded) > 0 =>
        /\ err # "TypeError"
        /\ err = "none" =>
               \A attr \in ATTRS_SUM :
                   gwjob[attr] = IF Supplied(attr) = {} THEN None ELSE SumFrom(attr, 1)

\* C7: in the record returned by _get_job_values, memory_multiplier is None
\* or has a ceiling above 1 (it is the configured value exactly when that
\* has a ceiling above 1); when it is not None, number_of_retries is the
\* configured number, or DEFAULT_MEM_RETRIES if none is configured; when a
\* configured multiplier is cleared, number_of_retries is as configured.
C7_UnitScalingRule ==
    pc = "fold" =>
        LET mult == found["memory_multiplier"]
            retries == found["number_of_retries"]
        IN  /\ \/ job_values["memory_multiplier"] = None
               \/ ceil(job_values["memory_multiplier"]) > 1
            /\ (mult # NotFound /\ ceil(mult) > 1)
                   => /\ job_values["memory_multiplier"] = mult
                      /\ job_values["number_of_retries"] =
                             IF retries # NotFound THEN retries ELSE DEFAULT_MEM_RETRIES
            /\ (mult = NotFound \/ ceil(mult) <= 1)
                   => /\ job_values["memory_multiplier"] = None
                      /\ job_values["number_of_retries"] =
                             IF retries # NotFound THEN retries ELSE None

\* C7 witness: a multiplier of 1.5 without configured retries got the
\* default number of retries.
C7_Witness ==
    /\ pc = "fold"
    /\ found["memory_multiplier"] = 15
    /\ found["number_of_retries"] = NotFound
    /\ job_values["memory_multiplier"] = 15
    /\ job_values["number_of_retries"] = DEFAULT_MEM_RETRIES

\* C8: the job never holds a partial or invalid scaling state: its
\* memory_multiplier is None or has a ceiling above 1, and when it is not
\* None the job has a number of retries.
C8_JobScalingState ==
    /\ \/ gwjob["memory_multiplier"] = None
       \/ ceil(gwjob["memory_multiplier"]) > 1
    /\ gwjob["memory_multiplier"] # None => gwjob["number_of_retries"] # None

\* C8 witness: the second fold switched scaling on for a job that had none,
\* without raising request_memory.
C8_Witness ==
    /\ Len(folded) = 2
    /\ err = "none"
    /\ before["memory_multiplier"] = None
    /\ before["request_memory"] = gwjob["request_memory"]
    /\ gwjob["memory_multiplier"] # None
    /\ gwjob["number_of_retries"] # None

(***************************************************************************)
(* Part 2: the final job.                                                  *)
(*                                                                         *)
(* Strings and str.upper.                                                  *)
(***************************************************************************)
ascii_lowercase ==
    <<"a", "b", "c", "d", "e", "f", "g", "h", "i", "j", "k", "l", "m",
      "n", "o", "p", "q", "r", "s", "t", "u", "v", "w", "x", "y", "z">>

ascii_uppercase ==
    <<"A", "B", "C", "D", "E", "F", "G", "H", "I", "J", "K", "L", "M",
      "N", "O", "P", "Q", "R", "S", "T", "U", "V", "W", "X", "Y", "Z">>

upper_char(c) ==
    IF \E i \in DOMAIN ascii_lowercase : ascii_lowercase[i] = c
    THEN ascii_uppercase[CHOOSE i \in DOMAIN ascii_lowercase : ascii_lowercase[i] = c]
    ELSE c

\* str.upper().
upper(string) ==
    [i \in 1..Len(string) |-> upper_char(string[i])]

NEVER == <<"N", "E", "V", "E", "R">>

ALWAYS == <<"A", "L", "W", "A", "Y", "S">>

SUCCESS == <<"S", "U", "C", "C", "E", "S", "S">>

\* Values a configuration may give to whenRun, whenCreate and whenMerge:
\* the three legal values in several letter cases, and SUBMIT, which is a
\* value of whenCreate and no legal value of whenRun or whenMerge.
WhenValues ==
    {NEVER, <<"n", "e", "v", "e", "r">>,
     ALWAYS, <<"a", "l", "w", "a", "y", "s">>,
     SUCCESS, <<"S", "u", "c", "c", "e", "s", "s">>,
     <<"S", "U", "B", "M", "I", "T">>}

ConfigKeys ==
    {".finalJob.whenRun", ".executionButler.whenCreate", ".executionButler.whenMerge"}

\* The configurations: any of the keys present, with any of the values.
Configs ==
    UNION {[K -> WhenValues] : K \in SUBSET ConfigKeys}

\* BpsConfig.search(key) without options: (found, value), the value being
\* the empty string when the key is not found.
search(cfg, key) ==
    IF key \in DOMAIN cfg
    THEN [found |-> TRUE, value |-> cfg[key]]
    ELSE [found |-> FALSE, value |-> <<>>]

(***************************************************************************)
(* The generic workflow: the job graph (jobs, edges), the designated       *)
(* final job, the registered files and the files recorded as job inputs.   *)
(***************************************************************************)
NoJob == "none"

NoFunc == "none"

Ok(wf) ==
    [wf |-> wf, err |-> "none"]

Fail(wf, exception) ==
    [wf |-> wf, err |-> exception]

\* GenericWorkflow.out_degree(n).
out_degree(wf, n) ==
    Cardinality({e \in wf.edges : e[1] = n})

\* GenericWorkflow.add_final(gwjob): the job becomes the designated final
\* job; it is no node of the job graph.
add_final(wf, job_name) ==
    [wf EXCEPT !.final = job_name]

\* GenericWorkflow.add_job(gwjob).
add_job(wf, job_name) ==
    [wf EXCEPT !.jobs = @ \cup {job_name}]

\* GenericWorkflow.add_job_relationships(parents, child).
add_job_relationships(wf, parents, child) ==
    [wf EXCEPT !.edges = @ \cup {<<parent, child>> : parent \in parents}]

\* GenericWorkflow.add_job_inputs(job_name, gwfile).
add_job_inputs(wf, job_name, file_name) ==
    [wf EXCEPT !.inputs = @ \cup {<<job_name, file_name>>}]

\* Mutant of add_final_job_as_sink: every job becomes a parent.
add_final_job_as_sink_from_every_job(wf, final_job) ==
    add_job_relationships(add_job(wf, final_job), wf.jobs, final_job)

\* Mutant of add_final_job_as_sink: the sinks are looked up after the job
\* was added.
add_final_job_as_sink_after_add_job(wf, final_job) ==
    LET added == add_job(wf, final_job)
        gw_sinks == {n \in added.jobs : out_degree(added, n) = 0}
    IN  add_job_relationships(added, gw_sinks, final_job)

add_final_job_as_sink(wf, final_job) ==
    LET gw_sinks == {n \in wf.jobs : out_degree(wf, n) = 0}
    IN  add_job_relationships(add_job(wf, final_job), gw_sinks, final_job)

\* The <FILE:...> keys of the command line that create_cmd returns:
\* _create_final_command for finalJob, _create_merge_command for
\* executionButler.
command_file_keys(job_name) ==
    IF job_name = "finalJob" THEN <<"runQgraphFile">> ELSE <<"butlerConfig">>

\* "Determine inputs from command line": get_file, which fails for a file
\* that is not registered in the workflow, then add_job_inputs.
RECURSIVE determine_inputs(_, _, _)
determine_inputs(wf, job_name, file_keys) ==
    IF file_keys = <<>>
    THEN Ok(wf)
    ELSE IF Head(file_keys) \notin wf.files
         THEN Fail(wf, "KeyError")
         ELSE determine_inputs(add_job_inputs(wf, job_name, Head(file_keys)),
                               job_name, Tail(file_keys))

\* The function _make_final_job_creator returns, as far as it touches the
\* workflow: the job's attribute values and its command line are set on the
\* job object alone.
create_final_job(wf, job_name) ==
    determine_inputs(wf, job_name, command_file_keys(job_name))

\* Mutant of attach: a value that is none of the three is not rejected.
attach_without_rejecting(when, wf, job_name) ==
    IF upper(when) = ALWAYS
    THEN Ok(add_final(wf, job_name))
    ELSE IF upper(when) = SUCCESS
         THEN Ok(add_final_job_as_sink(wf, job_name))
         ELSE Ok(wf)

\* Mutant of attach: ALWAYS makes the job a sink as well.
attach_always_as_sink(when, wf, job_name) ==
    IF upper(when) = ALWAYS
    THEN Ok(add_final(add_final_job_as_sink(wf, job_name), job_name))
    ELSE IF upper(when) = SUCCESS
         THEN Ok(add_final_job_as_sink(wf, job_name))
         ELSE Fail(wf, "ValueError")

\* Mutant of attach: a value that is none of the three counts as ALWAYS.
attach_invalid_as_always(when, wf, job_name) ==
    IF upper(when) = SUCCESS
    THEN Ok(add_final_job_as_sink(wf, job_name))
    ELSE Ok(add_final(wf, job_name))

\* The if / elif / else on the upper-cased flag in both handlers.
attach(when, wf, job_name) ==
    IF upper(when) = ALWAYS
    THEN Ok(add_final(wf, job_name))
    ELSE IF upper(when) = SUCCESS
         THEN Ok(add_final_job_as_sink(wf, job_name))
         ELSE Fail(wf, "ValueError")

add_final_job_handler(cfg, wf) ==
    LET when_run == search(cfg, ".finalJob.whenRun").value
    IN  IF upper(when_run) # NEVER
        THEN LET created == create_final_job(wf, "finalJob")
             IN  IF created.err # "none" THEN created
                 ELSE attach(when_run, created.wf, "finalJob")
        ELSE Ok(wf)

add_merge_job_handler(cfg, wf) ==
    LET when_create == search(cfg, ".executionButler.whenCreate").value
        when_merge == search(cfg, ".executionButler.whenMerge").value
    IN  IF upper(when_create) # NEVER /\ upper(when_merge) # NEVER
        THEN LET created == create_final_job(wf, "executionButler")
             IN  IF created.err # "none" THEN created
                 ELSE attach(when_merge, created.wf, "executionButler")
        ELSE Ok(wf)

\* Mutant of dispatcher: the merge policy is examined first.
dispatcher_merge_first ==
    << [name |-> ".executionButler.whenCreate", func |-> "_add_merge_job"],
       [name |-> ".finalJob.whenRun", func |-> "_add_final_job"] >>

\* The dispatcher dict of add_final_job, in insertion order.
dispatcher ==
    << [name |-> ".finalJob.whenRun", func |-> "_add_final_job"],
       [name |-> ".executionButler.whenCreate", func |-> "_add_merge_job"] >>

\* Mutant of dispatch: without the else clause func keeps the last entry.
dispatch_without_else(cfg, entries) ==
    LET accepted == {i \in DOMAIN entries :
                        entries[i].name \in DOMAIN cfg /\ cfg[entries[i].name] # NEVER}
    IN  IF accepted = {}
        THEN entries[Len(entries)].func
        ELSE entries[CHOOSE i \in accepted : \A j \in accepted : i <= j].func

\* The for / break / else loop over dispatcher.items(): the func of the
\* first entry the test accepts, NoFunc if the loop ends without a break.
RECURSIVE dispatch(_, _)
dispatch(cfg, entries) ==
    IF entries = <<>>
    THEN NoFunc
    ELSE IF Head(entries).name \in DOMAIN cfg /\ cfg[Head(entries).name] # NEVER
         THEN Head(entries).func
         ELSE dispatch(cfg, Tail(entries))

(***************************************************************************)
(* The state machine of add_final_job: the call starts on any workflow     *)
(* (an acyclic job graph, any of the two files registered) under any       *)
(* configuration.                                                          *)
(***************************************************************************)
JobNames ==
    {"a", "b", "c"}

\* The edges an acyclic graph over JobNames may hold.
ForwardEdges ==
    {<<"a", "b">>, <<"a", "c">>, <<"b", "c">>}

Workflows ==
    {[jobs |-> J, edges |-> E, final |-> NoJob, files |-> F, inputs |-> {}] :
        J \in SUBSET JobNames,
        E \in SUBSET ForwardEdges,
        F \in SUBSET {"runQgraphFile", "butlerConfig"}}

InitFinal ==
    /\ config \in Configs
    /\ generic_workflow \in {wf \in Workflows :
                                \A e \in wf.edges : e[1] \in wf.jobs /\ e[2] \in wf.jobs}
    /\ func = NoFunc
    /\ invoked = <<>>
    /\ err = "none"
    /\ pc = "add_final_job"
    /\ found = NothingFound
    /\ job_values = default_gwjob
    /\ gwjob = default_gwjob
    /\ before = default_gwjob
    /\ folded = <<>>
    /\ request = <<>>
    /\ self = <<>>
    /\ result = "none"
    /\ environ = {}

\* add_final_job up to the call of the selected handler.
AddFinalJob ==
    /\ pc = "add_final_job"
    /\ func' = dispatch(config, dispatcher)
    /\ IF func' = NoFunc
       THEN err' = "RuntimeError" /\ pc' = "done"
       ELSE err' = err /\ pc' = "func"
    /\ UNCHANGED <<config, generic_workflow, invoked>>
    /\ UNCHANGED aggvars
    /\ UNCHANGED environ
    /\ UNCHANGED corevars

\* func(config, generic_workflow, prefix) with func = _add_final_job.
CallAddFinalJob ==
    /\ pc = "func"
    /\ func = "_add_final_job"
    /\ LET r == add_final_job_handler(config, generic_workflow)
       IN  /\ generic_workflow' = r.wf
           /\ err' = r.err
    /\ invoked' = Append(invoked, "_add_final_job")
    /\ pc' = "done"
    /\ UNCHANGED <<config, func>>
    /\ UNCHANGED aggvars
    /\ UNCHANGED environ
    /\ UNCHANGED corevars

\* func(config, generic_workflow, prefix) with func = _add_merge_job.
CallAddMergeJob ==
    /\ pc = "func"
    /\ func = "_add_merge_job"
    /\ LET r == add_merge_job_handler(config, generic_workflow)
       IN  /\ generic_workflow' = r.wf
           /\ err' = r.err
    /\ invoked' = Append(invoked, "_add_merge_job")
    /\ pc' = "done"
    /\ UNCHANGED <<config, func>>
    /\ UNCHANGED aggvars
    /\ UNCHANGED environ
    /\ UNCHANGED corevars

NextFinal ==
    \/ AddFinalJob
    \/ CallAddFinalJob
    \/ CallAddMergeJob

SpecFinal ==
    InitFinal /\ [][NextFinal]_vars

(***************************************************************************)
(* Properties of add_final_job.                                            *)
(***************************************************************************)
FinalJobNames ==
    {"finalJob", "executionButler"}

\* The number of final-stage jobs attached to the workflow, as the
\* designated final job or as a job of the graph.
FinalJobsAttached ==
    (IF generic_workflow.final # NoJob THEN 1 ELSE 0)
        + Cardinality(FinalJobNames \cap generic_workflow.jobs)

ReturnedNormally ==
    pc = "done" /\ err = "none"

\* The policy's key is present with a value other than the string NEVER.
ConfiguredToRun(name) ==
    name \in DOMAIN config /\ config[name] # NEVER

\* The selected handler's flags say NEVER, whatever the letter case.
SelectedPolicyNever ==
    \/ /\ func = "_add_final_job"
       /\ upper(search(config, ".finalJob.whenRun").value) = NEVER
    \/ /\ func = "_add_merge_job"
       /\ \/ upper(search(config, ".executionButler.whenCreate").value) = NEVER
          \/ upper(search(config, ".executionButler.whenMerge").value) = NEVER

\* C9 as stated: when add_final_job returns normally, exactly one
\* final-stage job is attached to the workflow.
C9_ReturnsWithOneFinalJob ==
    ReturnedNormally => FinalJobsAttached = 1

\* C9 amended: when add_final_job returns normally, at most one final-stage
\* job is attached, and none is attached exactly when the flag of the
\* selected policy is NEVER in some letter case (finalJob.whenRun such as
\* "never"; executionButler.whenCreate such as "never", or
\* executionButler.whenMerge).
C9_OneFinalJobUnlessNever ==
    ReturnedNormally =>
        /\ FinalJobsAttached <= 1
        /\ FinalJobsAttached = 0 <=> SelectedPolicyNever

\* C9 witness: the merge policy is selected with whenMerge NEVER and the
\* call returns normally with no final job attached.
C9_Witness ==
    /\ ReturnedNormally
    /\ func = "_add_merge_job"
    /\ search(config, ".executionButler.whenMerge").value = NEVER
    /\ FinalJobsAttached = 0

C11_NoPolicyRaises ==
    [][(/\ pc = "add_final_job"
        /\ ~ConfiguredToRun(".finalJob.whenRun")
        /\ ~ConfiguredToRun(".executionButler.whenCreate"))
       => /\ pc' = "done"
          /\ err' = "RuntimeError"
          /\ func' = NoFunc
          /\ invoked' = <<>>
          /\ generic_workflow' = generic_workflow]_vars

\* C11 witness: the call ended with the RuntimeError under a configuration
\* that names both policies with NEVER, on a workflow with jobs and edges.
C11_Witness ==
    /\ pc = "done"
    /\ err = "RuntimeError"
    /\ invoked = <<>>
    /\ search(config, ".finalJob.whenRun").value = NEVER
    /\ search(config, ".executionButler.whenCreate").value = NEVER
    /\ generic_workflow.edges # {}
    /\ generic_workflow.files # {}

\* The attachment flag of the selected policy: whenRun for _add_final_job,
\* whenMerge for _add_merge_job.
SelectedFlagKey ==
    IF func = "_add_final_job" THEN ".finalJob.whenRun" ELSE ".executionButler.whenMerge"

\* The flag is configured with a value that is none of ALWAYS, SUCCESS,
\* NEVER in any letter case.
SelectedFlagInvalid ==
    /\ SelectedFlagKey \in DOMAIN config
    /\ upper(config[SelectedFlagKey]) \notin {ALWAYS, SUCCESS, NEVER}

\* The files named in the command line of the selected policy's job are
\* registered in the workflow.
CommandFilesRegistered ==
    LET job_name == IF func = "_add_final_job" THEN "finalJob" ELSE "executionButler"
    IN  \A i \in DOMAIN command_file_keys(job_name) :
            command_file_keys(job_name)[i] \in generic_workflow.files

\* The merge handler is selected although whenCreate says NEVER in another
\* letter case.
MergeNeverCreated ==
    /\ func = "_add_merge_job"
    /\ upper(search(config, ".executionButler.whenCreate").value) = NEVER

Sinks(wf) ==
    {n \in wf.jobs : out_degree(wf, n) = 0}

\* The name of the job the selected handler creates.
SelectedJobName ==
    IF func = "_add_final_job" THEN "finalJob" ELSE "executionButler"

\* The selected handler attaches its job with the given mode: the flag
\* says so in some letter case and, for the merge policy, whenCreate is
\* not NEVER in any letter case.
AttachesWith(mode) ==
    /\ pc = "func"
    /\ upper(search(config, SelectedFlagKey).value) = mode
    /\ ~MergeNeverCreated

\* C13: after a sink-dependent attachment (flag SUCCESS) the final job has
\* an in-edge from every node that had out-degree 0 before the call and
\* from no other node, it has no out-edge, and it is the only node of the
\* workflow with out-degree 0; the edges among the other jobs are kept.
C13_FinalJobIsSingleSink ==
    [][(AttachesWith(SUCCESS) /\ err' = "none")
       => /\ {e[1] : e \in {d \in generic_workflow'.edges : d[2] = SelectedJobName}}
                = Sinks(generic_workflow)
          /\ \A e \in generic_workflow'.edges : e[1] # SelectedJobName
          /\ Sinks(generic_workflow') = {SelectedJobName}
          /\ {e \in generic_workflow'.edges : e[2] # SelectedJobName}
                = generic_workflow.edges
          /\ generic_workflow'.jobs = generic_workflow.jobs \cup {SelectedJobName}]_vars

\* C13 witness: finalJob was attached as the sink of a workflow with three
\* jobs of which b and c were the sinks.
C13_Witness ==
    /\ ReturnedNormally
    /\ upper(search(config, ".finalJob.whenRun").value) = SUCCESS
    /\ generic_workflow.jobs = {"a", "b", "c", "finalJob"}
    /\ generic_workflow.edges =
           {<<"a", "b">>, <<"a", "c">>, <<"b", "finalJob">>, <<"c", "finalJob">>}

\* C14: an unconditional attachment (flag ALWAYS) registers the job as the
\* workflow's designated final job through add_final and adds no edge; the
\* jobs, the edges and the sinks of the job graph are what they were.
C14_AlwaysAddsNoEdges ==
    [][(AttachesWith(ALWAYS) /\ err' = "none")
       => /\ generic_workflow'.final = SelectedJobName
          /\ generic_workflow'.edges = generic_workflow.edges
          /\ generic_workflow'.jobs = generic_workflow.jobs
          /\ Sinks(generic_workflow') = Sinks(generic_workflow)
          /\ \A e \in generic_workflow'.edges :
                 e[1] # SelectedJobName /\ e[2] # SelectedJobName]_vars

\* C14 witness: executionButler became the designated final job of a
\* workflow whose graph still has its three jobs and the sinks b and c.
C14_Witness ==
    /\ ReturnedNormally
    /\ upper(search(config, ".executionButler.whenMerge").value) = ALWAYS
    /\ generic_workflow.final = "executionButler"
    /\ generic_workflow.jobs = {"a", "b", "c"}
    /\ generic_workflow.edges = {<<"a", "b">>, <<"a", "c">>}
    /\ Sinks(generic_workflow) = {"b", "c"}

\* The nodes reached from the set S of nodes by one to k edges.
RECURSIVE Descendants(_, _, _)
Descendants(wf, S, k) ==
    IF k = 0
    THEN {}
    ELSE LET next == {e[2] : e \in {d \in wf.edges : d[1] \in S}}
         IN  next \cup Descendants(wf, next, k - 1)

\* No directed cycle: no node reaches itself.
IsAcyclic(wf) ==
    LET nodes == wf.jobs \cup {e[1] : e \in wf.edges} \cup {e[2] : e \in wf.edges}
    IN  \A n \in nodes : n \notin Descendants(wf, {n}, Cardinality(nodes))

\* C15: the workflow, acyclic before add_final_job, is acyclic in every
\* state of the call, whichever policy and mode attach the final job; the
\* workflow create_generic_workflow builds (no jobs, the file
\* runQgraphFile) is one of the workflows the call starts on.
C15_WorkflowAcyclic ==
    IsAcyclic(generic_workflow)

\* C15 witness: the final job was attached as sink to the chain a, b, c
\* and the call returned.
C15_Witness ==
    /\ ReturnedNormally
    /\ generic_workflow.edges = {<<"a", "b">>, <<"b", "c">>, <<"c", "finalJob">>}
    /\ "finalJob" \in generic_workflow.jobs

(***************************************************************************)
(* create_generic_workflow: the workflow is constructed with the one file  *)
(* runQgraphFile and add_final_job is called on it.  The configuration is  *)
(* taken to hold whatever the other lookups of the function need.          *)
(***************************************************************************)
\* GenericWorkflow(name): no jobs, no edges, no final job, no files.
GenericWorkflow ==
    [jobs |-> {}, edges |-> {}, final |-> NoJob, files |-> {}, inputs |-> {}]

\* GenericWorkflow.add_file(gwfile).
add_file(wf, file_name) ==
    [wf EXCEPT !.files = @ \cup {file_name}]

InitCreate ==
    /\ config \in Configs
    /\ generic_workflow = GenericWorkflow
    /\ func = NoFunc
    /\ invoked = <<>>
    /\ err = "none"
    /\ pc = "create_generic_workflow"
    /\ found = NothingFound
    /\ job_values = default_gwjob
    /\ gwjob = default_gwjob
    /\ before = default_gwjob
    /\ folded = <<>>
    /\ request = <<>>
    /\ self = <<>>
    /\ result = "none"
    /\ environ = {}

\* create_generic_workflow up to its call of add_final_job.
CreateGenericWorkflow ==
    /\ pc = "create_generic_workflow"
    /\ generic_workflow' = add_file(GenericWorkflow, "runQgraphFile")
    /\ pc' = "add_final_job"
    /\ UNCHANGED <<config, func, invoked, err>>
    /\ UNCHANGED aggvars
    /\ UNCHANGED environ
    /\ UNCHANGED corevars

NextCreate ==
    \/ CreateGenericWorkflow
    \/ AddFinalJob
    \/ CallAddFinalJob
    \/ CallAddMergeJob

SpecCreate ==
    InitCreate /\ [][NextCreate]_vars

\* C16 as stated: under every configuration that selects a policy with a
\* legal flag, create_generic_workflow succeeds, and every file named in
\* the arguments of the attached final job is registered in the workflow
\* and recorded as an input of that job.
C16_FinalJobFilesRegistered ==
    (/\ pc = "done"
     /\ func # NoFunc
     /\ upper(search(config, SelectedFlagKey).value) \in {ALWAYS, SUCCESS, NEVER})
        => /\ err = "none"
           /\ FinalJobsAttached = 1 =>
                  \A i \in DOMAIN command_file_keys(SelectedJobName) :
                      /\ command_file_keys(SelectedJobName)[i] \in generic_workflow.files
                      /\ <<SelectedJobName, command_file_keys(SelectedJobName)[i]>>
                             \in generic_workflow.inputs

(***************************************************************************)
(* Part 3: command templating, _enhance_command and _fill_arguments.       *)
(*                                                                         *)
(* An argument string is a sequence of tokens: literal text, a {name}      *)
(* token, a <FILE:name> marker, an <ENV:name> marker, or a $name           *)
(* environment reference.  Literal text, like every string whose           *)
(* characters matter, is a sequence of characters.                         *)
(***************************************************************************)
Text(string) ==
    [kind |-> "text", name |-> "", text |-> string]

\* {name}
Var(name) ==
    [kind |-> "var", name |-> name, text |-> <<>>]

\* <FILE:name>
FileMarker(name) ==
    [kind |-> "file", name |-> name, text |-> <<>>]

\* <ENV:name>
EnvMarker(name) ==
    [kind |-> "env", name |-> name, text |-> <<>>]

\* $name
EnvRef(name) ==
    [kind |-> "dollar", name |-> name, text |-> <<>>]

\* str.rfind(char), counted from 1; 0 when the character does not occur.
rfind(string, char) ==
    LET at == {i \in DOMAIN string : string[i] = char}
    IN  IF at = {} THEN 0 ELSE CHOOSE i \in at : \A j \in at : j <= i

\* os.path.basename(path).
basename(path) ==
    SubSeq(path, rfind(path, "/") + 1, Len(path))

\* os.path.splitext(path)[1]: from the last dot of the last component,
\* unless only dots precede it there.
splitext_ext(path) ==
    LET sep == rfind(path, "/")
        dot == rfind(path, ".")
    IN  IF dot > sep /\ \E k \in (sep + 1)..(dot - 1) : path[k] # "."
        THEN SubSeq(path, dot, Len(path))
        ELSE <<>>

\* The names of the enumeration WhenToSaveQuantumGraphs.
TRANSFORM == <<"T", "R", "A", "N", "S", "F", "O", "R", "M">>

WhenToSaveQuantumGraphs ==
    {<<"Q", "G", "R", "A", "P", "H">>, TRANSFORM,
     <<"P", "R", "E", "P", "A", "R", "E">>, <<"S", "U", "B", "M", "I", "T">>, NEVER}

\* BpsConfig.search(key, opt) with opt["default"] set: the default counts
\* as found.
search_default(cfg, key, default) ==
    IF key \in DOMAIN cfg
    THEN [found |-> TRUE, value |-> cfg[key]]
    ELSE [found |-> TRUE, value |-> default]

\* BpsConfig.search(key, opt) for a key of the command line, replaceVars
\* and replaceEnvVars on: the value is a piece of text or, for a value
\* holding an environment variable, its <ENV:...> marker; the empty string
\* when the key is not found.
search_value(cfg, key) ==
    IF key \in DOMAIN cfg THEN cfg[key] ELSE Text(<<>>)

\* str.replace("{old}", "{new}") on the argument string.
replace_var(arguments, old, new) ==
    [i \in DOMAIN arguments |->
        IF arguments[i] = Var(old) THEN Var(new) ELSE arguments[i]]

\* "Change qgraph variable to match whether using run or per-job qgraph".
rename_qgraph_file(arguments, when_save, job_name) ==
    IF when_save = NEVER
    THEN replace_var(arguments, "qgraphFile", "runQgraphFile")
    ELSE IF job_name = "pipetaskInit"
         THEN replace_var(arguments, "qgraphFile", "runQgraphFile")
         ELSE replace_var(arguments, "qgraphFile", "qgraphFile_" \o job_name)

\* GenericWorkflow.get_job_inputs(job_name), as names.
get_job_inputs(wf, job_name) ==
    {i[2] : i \in {j \in wf.inputs : j[1] = job_name}}

\* GenericWorkflow.get_job_outputs(job_name), as names.
get_job_outputs(wf, job_name) ==
    {o[2] : o \in {j \in wf.outputs : j[1] = job_name}}

\* The two loops "Replace files with special placeholders" with the files
\* given: one str.replace per file.
replace_files(arguments, file_names) ==
    [i \in DOMAIN arguments |->
        IF arguments[i].kind = "var" /\ arguments[i].name \in file_names
        THEN FileMarker(arguments[i].name)
        ELSE arguments[i]]

\* Mutant of file_placeholders: the outputs of the job are not looked at.
file_placeholders_inputs_only(wf, job_name, arguments) ==
    replace_files(arguments, get_job_inputs(wf, job_name))

file_placeholders(wf, job_name, arguments) ==
    replace_files(replace_files(arguments, get_job_inputs(wf, job_name)),
                  get_job_outputs(wf, job_name))

\* re.findall(r"{([^}]+)}", arguments).
findall_vars(arguments) ==
    LET at == {i \in DOMAIN arguments : arguments[i].kind = "var"}
        nth(k) == CHOOSE i \in at : Cardinality({j \in at : j < i}) = k - 1
    IN  [k \in 1..Cardinality(at) |-> arguments[nth(k)].name]

\* dict with one more entry.
with_entry(dict, key, value) ==
    [k \in DOMAIN dict \cup {key} |-> IF k = key THEN value ELSE dict[k]]

\* "Save dict of other values needed to complete command line": the loop
\* over the keys found, on the cache of the job's label and the job's
\* cmdvals.
RECURSIVE gather_cmdvals(_, _, _, _)
gather_cmdvals(cfg, keys, cached, cmdvals) ==
    IF keys = <<>>
    THEN cmdvals
    ELSE LET key == Head(keys)
         IN  IF key \in DOMAIN cmdvals
             THEN gather_cmdvals(cfg, Tail(keys), cached, cmdvals)
             ELSE LET filled == IF key \in DOMAIN cached
                                THEN cached
                                ELSE with_entry(cached, key, search_value(cfg, key))
                  IN  gather_cmdvals(cfg, Tail(keys), filled,
                                     with_entry(cmdvals, key, filled[key]))

\* Mutant of use_lazy_commands: eager unless configured.
use_lazy_commands_default_false(cfg) ==
    search_default(cfg, "useLazyCommands", FALSE).value

\* useLazyCommands for the job's label, default True.
use_lazy_commands(cfg) ==
    search_default(cfg, "useLazyCommands", TRUE).value

\* _enhance_command up to the backwards-compatibility block, called with
\* an empty cache as every caller does: the job with its new arguments and
\* cmdvals, or the KeyError of a whenSaveJobQgraph that names no member of
\* the enumeration.
enhance_command(cfg, wf, job) ==
    LET when_save == upper(search(cfg, "whenSaveJobQgraph").value)
    IN  IF when_save \notin WhenToSaveQuantumGraphs
        THEN [job |-> job, err |-> "KeyError"]
        ELSE LET cached == [whenSaveJobQgraph |-> when_save,
                            useLazyCommands |-> use_lazy_commands(cfg)]
                 renamed == rename_qgraph_file(job.arguments, when_save, job.name)
                 marked == file_placeholders(wf, job.name, renamed)
                 cmdvals == gather_cmdvals(cfg, findall_vars(marked), cached, job.cmdvals)
             IN  [job |-> [job EXCEPT !.arguments = marked, !.cmdvals = cmdvals],
                  err |-> "none"]

\* GenericWorkflow.get_file(name) of a registered file.
get_file(wf, name) ==
    CHOOSE gwfile \in wf.files : gwfile.name = name

BUTLER_YAML == <<"b", "u", "t", "l", "e", "r", ".", "y", "a", "m", "l">>

\* Mutant of file_uri: no special case for butlerConfig.
file_uri_basename_only(use_shared, gwfile) ==
    IF ~gwfile.wms_transfer
    THEN gwfile.src_uri
    ELSE IF use_shared /\ gwfile.job_shared
         THEN gwfile.src_uri
         ELSE basename(gwfile.src_uri)

\* The if / elif / else of _fill_arguments that chooses a file's uri.
file_uri(use_shared, gwfile) ==
    IF ~gwfile.wms_transfer
    THEN gwfile.src_uri
    ELSE IF use_shared
         THEN IF gwfile.job_shared
              THEN gwfile.src_uri
              ELSE IF gwfile.name = "butlerConfig"
                      /\ splitext_ext(gwfile.src_uri) # <<".", "y", "a", "m", "l">>
                   THEN BUTLER_YAML
                   ELSE basename(gwfile.src_uri)
         ELSE basename(gwfile.src_uri)

\* "Replace file placeholders".
fill_files(use_shared, wf, arguments) ==
    [i \in DOMAIN arguments |->
        IF arguments[i].kind = "file"
        THEN Text(file_uri(use_shared, get_file(wf, arguments[i].name)))
        ELSE arguments[i]]

\* re.sub(r"<ENV:([^>]+)>", r"$\1", arguments).
env_markers_to_refs(arguments) ==
    [i \in DOMAIN arguments |->
        IF arguments[i].kind = "env" THEN EnvRef(arguments[i].name) ELSE arguments[i]]

\* The value of every variable that is set.
ENV_VALUE == <<"e">>

\* "".join(chars)
RECURSIVE join(_)
join(chars) ==
    IF chars = <<>> THEN "" ELSE Head(chars) \o join(Tail(chars))

\* os.path.expandvars on literal text: each $name, the name being the
\* longest run of letters after the $, becomes the value of the variable;
\* a reference to a variable that is not set is left unchanged.
RECURSIVE expandvars_text(_, _)
expandvars_text(chars, env) ==
    IF chars = <<>>
    THEN <<>>
    ELSE IF Head(chars) # "$"
    THEN <<Head(chars)>> \o expandvars_text(Tail(chars), env)
    ELSE LET rest == Tail(chars)
             letter(c) == \E k \in DOMAIN ascii_uppercase :
                              c = ascii_uppercase[k] \/ c = ascii_lowercase[k]
             n == Cardinality({k \in 1..Len(rest) : \A j \in 1..k : letter(rest[j])})
         IN  IF n > 0 /\ join(SubSeq(rest, 1, n)) \in env
             THEN ENV_VALUE \o expandvars_text(SubSeq(rest, n + 1, Len(rest)), env)
             ELSE <<"$">> \o expandvars_text(rest, env)

\* os.path.expandvars(arguments): a reference to a variable that is not
\* set is left unchanged.
expandvars(arguments, env) ==
    [i \in DOMAIN arguments |->
        IF arguments[i].kind = "dollar" /\ arguments[i].name \in env
        THEN Text(ENV_VALUE)
        ELSE IF arguments[i].kind = "text"
             THEN Text(expandvars_text(arguments[i].text, env))
             ELSE arguments[i]]

\* arguments.format(**cmdvals): each {name} becomes its value, KeyError
\* for a name cmdvals does not hold.
format(arguments, cmdvals) ==
    IF \E i \in DOMAIN arguments :
           arguments[i].kind = "var" /\ arguments[i].name \notin DOMAIN cmdvals
    THEN [arguments |-> arguments, err |-> "KeyError"]
    ELSE [arguments |-> [i \in DOMAIN arguments |->
                            IF arguments[i].kind = "var"
                            THEN cmdvals[arguments[i].name]
                            ELSE arguments[i]],
          err |-> "none"]

\* Mutant of fill_arguments: the values of cmdvals are filled in first.
fill_arguments_format_first(use_shared, wf, arguments, cmdvals, env) ==
    LET formatted == format(arguments, cmdvals)
    IN  IF \/ formatted.err # "none"
           \/ \E i \in DOMAIN formatted.arguments :
                  /\ formatted.arguments[i].kind = "file"
                  /\ \A gwfile \in wf.files : gwfile.name # formatted.arguments[i].name
        THEN [arguments |-> arguments, err |-> "KeyError"]
        ELSE [arguments |-> expandvars(env_markers_to_refs(
                                fill_files(use_shared, wf, formatted.arguments)), env),
              err |-> "none"]

\* _fill_arguments: the file markers, then the environment, then the
\* values of cmdvals.
fill_arguments(use_shared, wf, arguments, cmdvals, env) ==
    IF \E i \in DOMAIN arguments :
           /\ arguments[i].kind = "file"
           /\ \A gwfile \in wf.files : gwfile.name # arguments[i].name
    THEN [arguments |-> arguments, err |-> "KeyError"]
    ELSE format(expandvars(env_markers_to_refs(fill_files(use_shared, wf, arguments)), env),
                cmdvals)

(***************************************************************************)
(* The state machine of _enhance_command.  config holds the entries the    *)
(* call reads, generic_workflow the files and the files declared as the    *)
(* job's inputs and outputs, gwjob the job (name, label, arguments,        *)
(* cmdvals), environ the environment variables that are set.               *)
(***************************************************************************)
TemplateKeys ==
    {"whenSaveJobQgraph", "useLazyCommands", "bpsUseShared", "qux"}

\* The configurations: any of the keys present; bpsUseShared, when given,
\* says False (True is its default).
TemplateConfigs ==
    {[k \in K |-> CASE k = "whenSaveJobQgraph" -> when_save
                    [] k = "useLazyCommands" -> use_lazy
                    [] k = "bpsUseShared" -> FALSE
                    [] OTHER -> qux] :
        K \in SUBSET TemplateKeys,
        when_save \in {NEVER, TRANSFORM},
        use_lazy \in BOOLEAN,
        qux \in {Text(<<"2">>), EnvMarker("HOME"), FileMarker("runQgraphFile")}}

\* The file create_generic_workflow registers.
RunQgraphFile ==
    [name |-> "runQgraphFile", src_uri |-> <<"/", "s", "/", "q">>,
     wms_transfer |-> FALSE, job_shared |-> TRUE]

\* The butlerConfig files: a yaml file, a json file, a file named ".yaml",
\* a yaml file under $HOME.
ButlerConfigFiles ==
    {[name |-> "butlerConfig", src_uri |-> uri,
      wms_transfer |-> wms_transfer, job_shared |-> job_shared] :
        uri \in {<<"/", "r", "/", "b", ".", "y", "a", "m", "l">>,
                 <<"/", "r", "/", "b", ".", "j", "s", "o", "n">>,
                 <<"/", "r", "/", ".", "y", "a", "m", "l">>,
                 <<"$", "H", "O", "M", "E", "/", "b", ".", "y", "a", "m", "l">>},
        wms_transfer \in BOOLEAN,
        job_shared \in BOOLEAN}

JobNamesTemplated ==
    {"pipetaskInit", "finalJob"}

\* The workflows: runQgraphFile is registered and an input of the job;
\* butlerConfig is not registered, or registered and declared as input, as
\* output, or not at all.
TemplateWorkflows(job_name) ==
    {[jobs |-> {}, edges |-> {}, final |-> NoJob,
      files |-> {RunQgraphFile} \cup butler,
      inputs |-> {<<job_name, "runQgraphFile">>} \cup ins,
      outputs |-> outs] :
        butler \in {{}} \cup {{b} : b \in ButlerConfigFiles},
        ins \in SUBSET {<<job_name, "butlerConfig">>},
        outs \in SUBSET {<<job_name, "butlerConfig">>}}

\* The argument templates.
Templates ==
    {<<Var("qgraphFile"), Var("butlerConfig")>>,
     <<FileMarker("runQgraphFile"), Text(<<"x">>)>>,
     <<Text(<<"x">>), FileMarker("butlerConfig")>>,
     <<EnvMarker("HOME"), Var("qux")>>,
     <<Var("qux"), Var("qux")>>,
     <<Var("butlerConfig"), EnvMarker("HOME")>>,
     <<FileMarker("butlerConfig"), Var("qux")>>,
     <<Var("qgraphFile"), Var("qux")>>}

\* cmdvals the caller has set: none, or qux.
InitialCmdvals ==
    {[k \in K |-> Text(<<"7">>)] : K \in SUBSET {"qux"}}

InitTemplate ==
    /\ config \in TemplateConfigs
    /\ environ \in SUBSET {"HOME"}
    /\ gwjob \in {[name |-> n, label |-> n, arguments |-> a, cmdvals |-> c] :
                     n \in JobNamesTemplated, a \in Templates, c \in InitialCmdvals}
    /\ generic_workflow \in
           {wf \in TemplateWorkflows(gwjob.name) :
               /\ wf.inputs \cap wf.outputs = {}
               /\ \A d \in wf.inputs \cup wf.outputs :
                      \E gwfile \in wf.files : gwfile.name = d[2]}
    /\ err = "none"
    /\ pc = "_enhance_command"
    /\ func = NoFunc
    /\ invoked = <<>>
    /\ found = NothingFound
    /\ job_values = default_gwjob
    /\ before = default_gwjob
    /\ folded = <<>>
    /\ request = <<>>
    /\ self = <<>>
    /\ result = "none"

\* _enhance_command up to the backwards-compatibility block.
EnhanceCommand ==
    /\ pc = "_enhance_command"
    /\ LET r == enhance_command(config, generic_workflow, gwjob)
       IN  /\ gwjob' = r.job
           /\ err' = r.err
           /\ pc' = IF r.err # "none"
                    THEN "done"
                    ELSE IF ~use_lazy_commands(config)
                         THEN "_fill_arguments"
                         ELSE "done"
    /\ UNCHANGED <<found, job_values, before, folded>>
    /\ UNCHANGED finalvars
    /\ UNCHANGED environ
    /\ UNCHANGED corevars

\* The backwards-compatibility block: bpsUseShared is looked up, default
\* True, and _fill_arguments replaces the job's arguments.
FillArguments ==
    /\ pc = "_fill_arguments"
    /\ LET use_shared == search_default(config, "bpsUseShared", TRUE).value
           r == fill_arguments(use_shared, generic_workflow,
                               gwjob.arguments, gwjob.cmdvals, environ)
       IN  /\ gwjob' = [gwjob EXCEPT !.arguments = r.arguments]
           /\ err' = r.err
    /\ pc' = "done"
    /\ UNCHANGED <<found, job_values, before, folded>>
    /\ UNCHANGED finalvars
    /\ UNCHANGED environ
    /\ UNCHANGED corevars

NextTemplate ==
    \/ EnhanceCommand
    \/ FillArguments

SpecTemplate ==
    InitTemplate /\ [][NextTemplate]_vars

(***************************************************************************)
(* Properties of command templating.                                       *)
(***************************************************************************)
\* The logical names of the files declared as inputs or outputs of the job.
DeclaredFiles ==
    get_job_inputs(generic_workflow, gwjob.name)
        \cup get_job_outputs(generic_workflow, gwjob.name)

\* The step of _enhance_command that ends its first phase normally.
PhaseAStep ==
    pc = "_enhance_command" /\ err' = "none"

\* C17: after the first phase of _enhance_command every {name} token that
\* names a declared input or output file of the job is the marker
\* <FILE:name>, and every {name} token still in the arguments has an entry
\* in the job's cmdvals: the entry the caller had set, else what
\* config.search finds for the name; the other tokens are as they were.
C17_PhaseAMarksFilesAndGathersValues ==
    [][PhaseAStep =>
        /\ DOMAIN gwjob'.arguments = DOMAIN gwjob.arguments
        /\ \A i \in DOMAIN gwjob.arguments :
               LET old == gwjob.arguments[i]
                   new == gwjob'.arguments[i]
               IN  /\ (old.kind = "var" /\ old.name \in DeclaredFiles)
                          => new = FileMarker(old.name)
                   /\ old.kind # "var" => new = old
                   /\ new.kind = "var" =>
                          /\ new.name \notin DeclaredFiles
                          /\ new.name \in DOMAIN gwjob'.cmdvals
                          /\ gwjob'.cmdvals[new.name] =
                                 IF new.name \in DOMAIN gwjob.cmdvals
                                 THEN gwjob.cmdvals[new.name]
                                 ELSE search_value(config, new.name)]_vars

\* C17 witness: {qgraphFile} {qux} became <FILE:runQgraphFile> {qux} with
\* the value of qux, an <ENV:HOME> marker, gathered from the configuration.
C17_Witness ==
    /\ pc = "done"
    /\ err = "none"
    /\ gwjob.arguments = <<FileMarker("runQgraphFile"), Var("qux")>>
    /\ DOMAIN gwjob.cmdvals = {"qux"}
    /\ gwjob.cmdvals["qux"] = EnvMarker("HOME")

\* A placeholder is left in the arguments: a {name} token, a <FILE:...> or
\* <ENV:...> marker, or an environment reference.
Unresolved(arguments) ==
    \E i \in DOMAIN arguments :
        arguments[i].kind \in {"var", "file", "env", "dollar"}

\* C18 as stated: when useLazyCommands is false and _enhance_command
\* returns normally, no placeholder of any kind is left in the job's
\* arguments, whatever the environment.
C18_NoUnresolvedPlaceholder ==
    (pc = "done" /\ err = "none" /\ ~use_lazy_commands(config))
        => ~Unresolved(gwjob.arguments)

\* The step of _fill_arguments that returns normally.
PhaseBStep ==
    pc = "_fill_arguments" /\ err' = "none"

\* bpsUseShared as _enhance_command hands it to _fill_arguments.
UseShared ==
    search_default(config, "bpsUseShared", TRUE).value

\* C19 as stated: a file marker is replaced (the environment pass that
\* follows applied to the replacement) by the file's full source
\* location if the file is not transferred by the WMS, else by the full
\* source location if a shared filesystem is used and the file is
\* job-shareable, and in every remaining case by the base name of the
\* source location.
C19_BasenameInEveryRemainingCase ==
    [][PhaseBStep =>
        \A i \in DOMAIN gwjob.arguments :
            gwjob.arguments[i].kind = "file" =>
                LET gwfile == get_file(generic_workflow, gwjob.arguments[i].name)
                IN  gwjob'.arguments[i] =
                        Text(expandvars_text(
                                 IF ~gwfile.wms_transfer
                                 THEN gwfile.src_uri
                                 ELSE IF UseShared /\ gwfile.job_shared
                                      THEN gwfile.src_uri
                                      ELSE basename(gwfile.src_uri),
                                 environ))]_vars

\* C19 amended: as stated, except that on a shared filesystem a file that
\* the WMS transfers and that is not job-shareable is replaced by the
\* fixed name butler.yaml when its logical name is butlerConfig and the
\* extension of its source location is not .yaml; by the base name
\* otherwise.
C19_FilePathPolicy ==
    [][PhaseBStep =>
        \A i \in DOMAIN gwjob.arguments :
            gwjob.arguments[i].kind = "file" =>
                LET gwfile == get_file(generic_workflow, gwjob.arguments[i].name)
                IN  gwjob'.arguments[i] =
                        Text(expandvars_text(
                                 IF ~gwfile.wms_transfer
                                 THEN gwfile.src_uri
                                 ELSE IF UseShared /\ gwfile.job_shared
                                      THEN gwfile.src_uri
                                      ELSE IF /\ UseShared
                                              /\ gwfile.name = "butlerConfig"
                                              /\ splitext_ext(gwfile.src_uri)
                                                     # <<".", "y", "a", "m", "l">>
                                           THEN BUTLER_YAML
                                           ELSE basename(gwfile.src_uri),
                                 environ))]_vars

\* C19 witness: on a shared filesystem the marker of a transferred, not
\* job-shareable butlerConfig at /r/b.json was replaced by butler.yaml.
C19_Witness ==
    /\ pc = "done"
    /\ err = "none"
    /\ UseShared
    /\ ~use_lazy_commands(config)
    /\ [name |-> "butlerConfig", src_uri |-> <<"/", "r", "/", "b", ".", "j", "s", "o", "n">>,
        wms_transfer |-> TRUE, job_shared |-> FALSE] \in generic_workflow.files
    /\ gwjob.arguments[1] = Text(BUTLER_YAML)

\* The kinds of token that are placeholders.
MarkerKinds ==
    {"var", "file", "env"}

\* C20: _fill_arguments runs exactly when useLazyCommands is false for the
\* job's label; when it is true or not configured the call ends with the
\* first phase, and every marker and {name} token that phase left in the
\* arguments is still there when the call has returned: no file uri and no
\* value has been filled in.
C20_PhaseBOnlyWhenEager ==
    [][PhaseAStep =>
        /\ pc' = "_fill_arguments" <=>
               ("useLazyCommands" \in DOMAIN config /\ config["useLazyCommands"] = FALSE)
        /\ pc' = "done" <=>
               ("useLazyCommands" \notin DOMAIN config \/ config["useLazyCommands"] = TRUE)
        /\ pc' = "done" =>
               \A i \in DOMAIN gwjob.arguments :
                   gwjob.arguments[i].kind \in MarkerKinds
                       => gwjob'.arguments[i].kind \in MarkerKinds]_vars

\* C20 witness: useLazyCommands is not configured and the call returned
\* with <FILE:butlerConfig> <ENV:HOME> in the arguments although the file
\* is one whose uri the eager path would have cut to its base name.
C20_Witness ==
    /\ pc = "done"
    /\ err = "none"
    /\ "useLazyCommands" \notin DOMAIN config
    /\ gwjob.arguments = <<FileMarker("butlerConfig"), EnvMarker("HOME")>>
    /\ \E gwfile \in generic_workflow.files :
           gwfile.name = "butlerConfig" /\ gwfile.wms_transfer /\ ~gwfile.job_shared

\* C30: _fill_arguments, returning normally, has replaced each file
\* marker by the path of its file with the environment references of the
\* path expanded, each <ENV:name> marker and each reference in the text by
\* the value of the variable (left as a reference when the variable is
\* not set), and each {name} token by the entry of cmdvals as it is: no
\* environment marker or reference in the entry is expanded and no file
\* marker in it replaced.
C30_FilesThenEnvironmentThenValues ==
    [][PhaseBStep =>
        /\ DOMAIN gwjob'.arguments = DOMAIN gwjob.arguments
        /\ \A i \in DOMAIN gwjob.arguments :
               LET old == gwjob.arguments[i]
                   new == gwjob'.arguments[i]
               IN  CASE old.kind = "file" ->
                            new = Text(expandvars_text(
                                           file_uri(UseShared,
                                                    get_file(generic_workflow, old.name)),
                                           environ))
                     [] old.kind \in {"env", "dollar"} ->
                            new = IF old.name \in environ
                                  THEN Text(ENV_VALUE)
                                  ELSE EnvRef(old.name)
                     [] old.kind = "var" ->
                            new = gwjob.cmdvals[old.name]
                     [] OTHER ->
                            new = Text(expandvars_text(old.text, environ))]_vars

\* C30 witness: with HOME set, <FILE:butlerConfig> {qux} for a file at
\* $HOME/b.yaml that the WMS does not transfer and qux = <ENV:HOME> became
\* e/b.yaml <ENV:HOME>: the reference in the path was expanded, the marker
\* in the value was not.
C30_Witness ==
    /\ pc = "done"
    /\ err = "none"
    /\ ~use_lazy_commands(config)
    /\ "HOME" \in environ
    /\ \E gwfile \in generic_workflow.files :
           /\ gwfile.name = "butlerConfig"
           /\ gwfile.src_uri = <<"$", "H", "O", "M", "E", "/", "b", ".", "y", "a", "m", "l">>
           /\ ~gwfile.wms_transfer
    /\ gwjob.arguments = <<Text(<<"e", "/", "b", ".", "y", "a", "m", "l">>), EnvMarker("HOME")>>

(***************************************************************************)
(* Part 4: BpsConfig.search with its options.                              *)
(*                                                                         *)
(* A configuration holds its search order and its sections; a section      *)
(* holds values by key and subsections by name.  A value is a sequence of  *)
(* tokens: an integer is one token of kind "int" with its digits, a string *)
(* is made of text, ${name} references, <ENV:name> markers and             *)
(* {name:spec} tokens, the format specification kept in the token's text.  *)
(***************************************************************************)
IntValue(digits) ==
    <<[kind |-> "int", name |-> "", text |-> digits]>>

\* {name:spec}
VarSpec(name, spec) ==
    [kind |-> "var", name |-> name, text |-> spec]

\* The options of a search without a default.
NoDefault ==
    [given |-> FALSE, value |-> <<>>]

\* Mutant of section_lookup: the value of the section itself comes first.
section_lookup_section_first(section, section_name, key, curvals) ==
    LET curr == "curr_" \o section_name
    IN  IF key \in DOMAIN section.values
        THEN [found |-> TRUE, value |-> section.values[key]]
        ELSE IF /\ curr \in DOMAIN curvals
                /\ curvals[curr] \in DOMAIN section.subsections
                /\ key \in DOMAIN section.subsections[curvals[curr]]
             THEN [found |-> TRUE, value |-> section.subsections[curvals[curr]][key]]
             ELSE [found |-> FALSE, value |-> <<>>]

\* The section-level lookup of a key: in the subsection the current value
\* curr_<section> names, when the section has it and it holds the key,
\* else in the section itself.
section_lookup(section, section_name, key, curvals) ==
    LET curr == "curr_" \o section_name
    IN  IF /\ curr \in DOMAIN curvals
           /\ curvals[curr] \in DOMAIN section.subsections
           /\ key \in DOMAIN section.subsections[curvals[curr]]
        THEN [found |-> TRUE, value |-> section.subsections[curvals[curr]][key]]
        ELSE IF key \in DOMAIN section.values
             THEN [found |-> TRUE, value |-> section.values[key]]
             ELSE [found |-> FALSE, value |-> <<>>]

\* Mutant of search_sections: the last section of the order that holds
\* the key wins.
RECURSIVE search_sections_last_wins(_, _, _, _)
search_sections_last_wins(cfg, order, key, curvals) ==
    IF order = <<>>
    THEN [found |-> FALSE, value |-> <<>>]
    ELSE LET sect == order[Len(order)]
             hit == IF sect \in DOMAIN cfg.sections
                    THEN section_lookup(cfg.sections[sect], sect, key, curvals)
                    ELSE [found |-> FALSE, value |-> <<>>]
         IN  IF hit.found
             THEN hit
             ELSE search_sections_last_wins(cfg, SubSeq(order, 1, Len(order) - 1),
                                            key, curvals)

\* The loop over the search order: the first section that holds the key.
RECURSIVE search_sections(_, _, _, _)
search_sections(cfg, order, key, curvals) ==
    IF order = <<>>
    THEN [found |-> FALSE, value |-> <<>>]
    ELSE LET sect == Head(order)
             hit == IF sect \in DOMAIN cfg.sections
                    THEN section_lookup(cfg.sections[sect], sect, key, curvals)
                    ELSE [found |-> FALSE, value |-> <<>>]
         IN  IF hit.found
             THEN hit
             ELSE search_sections(cfg, Tail(order), key, curvals)

\* Mutant of lookup: the sections are searched before the request.
lookup_store_first(cfg, key, opt, first) ==
    LET hit == search_sections(cfg, cfg.search_order, key, opt.curvals)
    IN  IF hit.found
        THEN hit
        ELSE IF key \in DOMAIN opt.curvals
             THEN [found |-> TRUE, value |-> opt.curvals[key]]
             ELSE IF key \in DOMAIN opt.searchobj
                  THEN [found |-> TRUE, value |-> opt.searchobj[key]]
                  ELSE hit

\* Where a key is looked for: the current values and the searchobj of the
\* request, whichever of the two is consulted first, then the sections.
lookup(cfg, key, opt, first) ==
    IF key \in DOMAIN opt.curvals /\ (first = "curvals" \/ key \notin DOMAIN opt.searchobj)
    THEN [found |-> TRUE, value |-> opt.curvals[key]]
    ELSE IF key \in DOMAIN opt.searchobj
         THEN [found |-> TRUE, value |-> opt.searchobj[key]]
         ELSE search_sections(cfg, cfg.search_order, key, opt.curvals)

\* re.sub(r"\${([^}]+)}", r"<ENV:\1>", value): defer the environment.
env_refs_to_markers(value) ==
    [i \in DOMAIN value |->
        IF value[i].kind = "dollar" THEN EnvMarker(value[i].name) ELSE value[i]]

\* Mutant of env_stage: replaceEnvVars is tested before expandEnvVars.
env_stage_defer_first(value, opt, env) ==
    IF opt.replaceEnvVars
    THEN env_refs_to_markers(value)
    ELSE IF opt.expandEnvVars
         THEN expandvars(env_markers_to_refs(value), env)
         ELSE value

\* Mutant of env_stage: the environment is never expanded.
env_stage_never_expands(value, opt, env) ==
    IF opt.replaceEnvVars
    THEN env_refs_to_markers(value)
    ELSE value

\* The environment stage of search: expandEnvVars expands now, else
\* replaceEnvVars defers.
env_stage(value, opt, env) ==
    IF opt.expandEnvVars
    THEN expandvars(env_markers_to_refs(value), env)
    ELSE IF opt.replaceEnvVars
         THEN env_refs_to_markers(value)
         ELSE value

DecimalDigits ==
    <<"0", "1", "2", "3", "4", "5", "6", "7", "8", "9">>

\* The width a format specification "0<w>" asks for.
spec_width(spec) ==
    (CHOOSE n \in DOMAIN DecimalDigits : DecimalDigits[n] = spec[Len(spec)]) - 1

\* format(number, "0<w>"): zeros after the sign up to the width.
zero_pad(digits, width) ==
    LET negative == digits # <<>> /\ Head(digits) = "-"
        magnitude == IF negative THEN Tail(digits) ELSE digits
        missing == IF width > Len(digits) THEN width - Len(digits) ELSE 0
        zeros == [i \in 1..missing |-> "0"]
    IN  (IF negative THEN <<"-">> ELSE <<>>) \o zeros \o magnitude

\* What a {name:spec} token becomes for the value found for name: an
\* integer is written with its specification, a string is put in.
format_value(value, spec) ==
    IF Len(value) = 1 /\ value[1].kind = "int"
    THEN <<Text(IF spec = <<>> THEN value[1].text
                ELSE zero_pad(value[1].text, spec_width(spec)))>>
    ELSE value

RECURSIVE search_opt(_, _, _, _, _)
RECURSIVE replace_vars(_, _, _, _, _)
\* The formatter of replaceVars: every {name:spec} token is searched for
\* with the same options, the default left out, and written in place; a
\* name that is not found is an error.
replace_vars(cfg, value, opt, env, first) ==
    IF value = <<>>
    THEN [value |-> <<>>, err |-> "none"]
    ELSE LET rest == replace_vars(cfg, Tail(value), opt, env, first)
             token == Head(value)
         IN  IF token.kind # "var"
             THEN [value |-> <<token>> \o rest.value, err |-> rest.err]
             ELSE LET nested == search_opt(cfg, token.name,
                                           [opt EXCEPT !.default = NoDefault,
                                                       !.required = FALSE],
                                           env, first)
                  IN  IF ~nested.found \/ nested.err # "none"
                      THEN [value |-> value, err |-> "KeyError"]
                      ELSE [value |-> format_value(nested.value, token.text) \o rest.value,
                            err |-> rest.err]

\* Mutant of search_opt: a default does not count as found.
search_opt_default_not_found(cfg, key, opt, env, first) ==
    LET hit == lookup(cfg, key, opt, first)
    IN  IF ~hit.found
        THEN IF opt.required /\ ~opt.default.given
             THEN [found |-> FALSE, value |-> <<>>, err |-> "KeyError"]
             ELSE [found |-> FALSE, value |-> opt.default.value, err |-> "none"]
        ELSE [found |-> TRUE, value |-> env_stage(hit.value, opt, env), err |-> "none"]

\* BpsConfig.search(key, opt).
search_opt(cfg, key, opt, env, first) ==
    LET hit == lookup(cfg, key, opt, first)
        with_default == IF ~hit.found /\ opt.default.given
                        THEN [found |-> TRUE, value |-> opt.default.value]
                        ELSE hit
    IN  IF ~with_default.found
        THEN [found |-> FALSE, value |-> <<>>,
              err |-> IF opt.required THEN "KeyError" ELSE "none"]
        ELSE LET env_done == env_stage(with_default.value, opt, env)
                 rendered == IF opt.replaceVars
                             THEN replace_vars(cfg, env_done, opt, env, first)
                             ELSE [value |-> env_done, err |-> "none"]
             IN  [found |-> TRUE, value |-> rendered.value, err |-> rendered.err]

(***************************************************************************)
(* The state machine of one search: a configuration like the one of the    *)
(* tests (sections baz, bar, foo; qux = 2 in baz, 3 in baz.garply; grault  *)
(* = "${GARPLY}/waldo/{qux:03}" in foo), any search order, any request.    *)
(***************************************************************************)
SectionNames ==
    {"baz", "bar", "foo"}

\* qux as each section holds it.
QuxIn(section_name) ==
    CASE section_name = "baz" -> IntValue(<<"2">>)
      [] section_name = "bar" -> IntValue(<<"5">>)
      [] OTHER -> IntValue(<<"6">>)

GRAULT ==
    <<EnvRef("GARPLY"), Text(<<"/", "w", "a", "l", "d", "o", "/">>),
      VarSpec("qux", <<"0", "3">>)>>

\* The subsections of baz: none, garply holding qux = 3, garply without qux.
BazSubsections ==
    {[n \in N |-> [k \in K |-> IntValue(<<"3">>)]] :
        N \in SUBSET {"garply"}, K \in SUBSET {"qux"}}

\* The search orders: every arrangement of every set of sections.
SearchOrders ==
    UNION {Orders(K) : K \in SUBSET SectionNames}

\* The configurations: qux in any of the sections, grault in foo.
SearchConfigs ==
    {[search_order |-> order,
      sections |-> [n \in SectionNames |->
                      [values |-> [k \in (IF n \in holders THEN {"qux"} ELSE {})
                                           \cup (IF n = "foo" THEN {"grault"} ELSE {}) |->
                                      IF k = "qux" THEN QuxIn(n) ELSE GRAULT],
                       subsections |-> IF n = "baz" THEN subs ELSE <<>>]]] :
        order \in SearchOrders,
        holders \in SUBSET SectionNames,
        subs \in BazSubsections}

\* The requests: qux and the missing key plugh are searched with the
\* template toggles off, grault with every combination of them.
SearchRequests ==
    {[key |-> key,
      opt |-> [searchobj |-> [k \in so |-> IntValue(<<"4">>)],
               curvals |-> curvals,
               default |-> default,
               required |-> required,
               expandEnvVars |-> toggles[1],
               replaceEnvVars |-> toggles[2],
               replaceVars |-> toggles[3]]] :
        key \in {"qux", "grault", "plugh"},
        so \in SUBSET {"qux"},
        curvals \in {<<>>, [k \in {"qux"} |-> IntValue(<<"-", "3">>)],
                     [k \in {"curr_baz"} |-> "garply"]},
        default \in {NoDefault, [given |-> TRUE, value |-> IntValue(<<"4">>)]},
        required \in BOOLEAN,
        toggles \in BOOLEAN \X BOOLEAN \X BOOLEAN}

InitSearch ==
    /\ config \in SearchConfigs
    /\ request \in {r \in SearchRequests :
                       r.key # "grault" =>
                           ~(r.opt.expandEnvVars \/ r.opt.replaceEnvVars \/ r.opt.replaceVars)}
    /\ environ \in SUBSET {"GARPLY"}
    /\ result = "none"
    /\ err = "none"
    /\ pc = "search"
    /\ self = <<>>
    /\ generic_workflow = GenericWorkflow
    /\ func = NoFunc
    /\ invoked = <<>>
    /\ found = NothingFound
    /\ job_values = default_gwjob
    /\ gwjob = default_gwjob
    /\ before = default_gwjob
    /\ folded = <<>>

\* config.search(key, opt).
Search ==
    /\ pc = "search"
    /\ \E first \in {"curvals", "searchobj"} :
           LET r == search_opt(config, request.key, request.opt, environ, first)
           IN  /\ err' = r.err
               /\ result' = IF r.err = "none"
                            THEN [found |-> r.found, value |-> r.value]
                            ELSE result
    /\ pc' = "done"
    /\ UNCHANGED <<config, request, environ, self, generic_workflow, func, invoked>>
    /\ UNCHANGED aggvars

NextSearch ==
    Search

SpecSearch ==
    InitSearch /\ [][NextSearch]_vars

(***************************************************************************)
(* Properties of BpsConfig.search.                                         *)
(***************************************************************************)
\* The positions of the search order whose section holds the key itself.
HoldersInOrder(key) ==
    {i \in DOMAIN config.search_order :
        key \in DOMAIN config.sections[config.search_order[i]].values}

\* The first section of the search order that holds the key.
FirstHolder(key) ==
    config.search_order[CHOOSE i \in HoldersInOrder(key) :
                            \A j \in HoldersInOrder(key) : i <= j]

\* The request supplies nothing itself: no searchobj, no current values.
PlainRequest ==
    DOMAIN request.opt.searchobj = {} /\ DOMAIN request.opt.curvals = {}

SearchReturned ==
    pc = "done" /\ err = "none"

\* C21: a search that the request does not answer itself returns found =
\* True and the value of the first section of the search order that holds
\* the key, wherever else the key is absent.
C21_FirstSectionInOrderWins ==
    (pc = "done" /\ request.key = "qux" /\ PlainRequest /\ HoldersInOrder("qux") # {})
        => /\ err = "none"
           /\ result.found
           /\ result.value = config.sections[FirstHolder("qux")].values["qux"]

\* C21 witness: with the order bar, baz, foo and qux in baz and foo only
\* the search returned 2, the value of baz.
C21_Witness ==
    /\ SearchReturned
    /\ request.key = "qux"
    /\ PlainRequest
    /\ config.search_order = <<"bar", "baz", "foo">>
    /\ HoldersInOrder("qux") = {2, 3}
    /\ result.found
    /\ result.value = IntValue(<<"2">>)

\* C22: with curr_baz = garply in the current values, baz the first
\* section that holds qux, and baz holding qux both itself and in its
\* subsection garply, the search returns the value of the subsection (3),
\* not that of the section (2).
C22_SubsectionBeforeSection ==
    (/\ pc = "done"
     /\ request.key = "qux"
     /\ DOMAIN request.opt.searchobj = {}
     /\ DOMAIN request.opt.curvals = {"curr_baz"}
     /\ HoldersInOrder("qux") # {}
     /\ FirstHolder("qux") = "baz"
     /\ "garply" \in DOMAIN config.sections["baz"].subsections
     /\ "qux" \in DOMAIN config.sections["baz"].subsections["garply"])
        => /\ err = "none"
           /\ result.found
           /\ result.value = IntValue(<<"3">>)

\* C22 witness: the search order of the tests, qux = 2 in baz and 3 in
\* baz.garply, curr_baz = garply: 3 was returned.
C22_Witness ==
    /\ SearchReturned
    /\ request.key = "qux"
    /\ DOMAIN request.opt.curvals = {"curr_baz"}
    /\ DOMAIN request.opt.searchobj = {}
    /\ config.search_order = <<"baz", "bar", "foo">>
    /\ "qux" \in DOMAIN config.sections["baz"].values
    /\ config.sections["baz"].values["qux"] = IntValue(<<"2">>)
    /\ result.found
    /\ result.value = IntValue(<<"3">>)

\* The search found grault and rendered it.
GraultReturned ==
    /\ SearchReturned
    /\ request.key = "grault"
    /\ result.found
    /\ Len(result.value) = 3

\* C23 as stated: with expandEnvVars and replaceEnvVars both requested,
\* ${GARPLY} comes back as the marker <ENV:GARPLY>.
C23_DeferWins ==
    (GraultReturned /\ request.opt.expandEnvVars /\ request.opt.replaceEnvVars)
        => result.value[1] = EnvMarker("GARPLY")

\* C23 amended: with both requested expanding wins: ${GARPLY} comes back
\* as the value of the variable, or unchanged when the variable is not
\* set, and never as the marker <ENV:GARPLY>.
C23_ExpandWins ==
    (GraultReturned /\ request.opt.expandEnvVars /\ request.opt.replaceEnvVars)
        => result.value[1] = IF "GARPLY" \in environ
                             THEN Text(ENV_VALUE)
                             ELSE EnvRef("GARPLY")

\* C23 witness: both toggles on, GARPLY set: its value was returned.
C23_Witness ==
    /\ GraultReturned
    /\ request.opt.expandEnvVars
    /\ request.opt.replaceEnvVars
    /\ "GARPLY" \in environ
    /\ result.value[1] = Text(ENV_VALUE)

\* qux resolves to the 2 of section baz.
QuxIsTwo ==
    /\ PlainRequest
    /\ HoldersInOrder("qux") # {}
    /\ FirstHolder("qux") = "baz"

\* C24: for "${GARPLY}/waldo/{qux:03}" with GARPLY set and qux = 2, under
\* each of the eight combinations of the toggles: found is True;
\* ${GARPLY} is the value of GARPLY when expandEnvVars is on, whatever
\* replaceEnvVars says, <ENV:GARPLY> when only replaceEnvVars is on, and
\* untouched when both are off; {qux:03} is 002 exactly when replaceVars
\* is on, whatever the other two say.
C24_TemplateToggles ==
    (/\ pc = "done"
     /\ request.key = "grault"
     /\ "foo" \in {config.search_order[i] : i \in DOMAIN config.search_order}
     /\ "GARPLY" \in environ
     /\ QuxIsTwo)
        => /\ err = "none"
           /\ result.found
           /\ result.value =
                 << IF request.opt.expandEnvVars
                    THEN Text(ENV_VALUE)
                    ELSE IF request.opt.replaceEnvVars
                         THEN EnvMarker("GARPLY")
                         ELSE EnvRef("GARPLY"),
                    Text(<<"/", "w", "a", "l", "d", "o", "/">>),
                    IF request.opt.replaceVars
                    THEN Text(<<"0", "0", "2">>)
                    ELSE VarSpec("qux", <<"0", "3">>) >>

\* C24 witness: replaceEnvVars and replaceVars on, expandEnvVars off:
\* <ENV:GARPLY>/waldo/002.
C24_Witness ==
    /\ GraultReturned
    /\ QuxIsTwo
    /\ "GARPLY" \in environ
    /\ ~request.opt.expandEnvVars
    /\ request.opt.replaceEnvVars
    /\ request.opt.replaceVars
    /\ result.value[1] = EnvMarker("GARPLY")
    /\ result.value[3] = Text(<<"0", "0", "2">>)

\* C25: for a key that the request, the current values and the sections
\* do not hold, a search with a default returns found = True and the
\* default; without a default it raises KeyError when required, and
\* returns found = False without raising otherwise.
C25_MissingKey ==
    (pc = "done" /\ request.key = "plugh")
        => IF request.opt.default.given
           THEN /\ err = "none"
                /\ result.found
                /\ result.value = request.opt.default.value
           ELSE IF request.opt.required
                THEN err = "KeyError"
                ELSE err = "none" /\ ~result.found

\* C25 witness: plugh searched with the default 4, not required: found
\* with 4.
C25_Witness ==
    /\ SearchReturned
    /\ request.key = "plugh"
    /\ request.opt.default.given
    /\ ~request.opt.required
    /\ result.found
    /\ result.value = IntValue(<<"4">>)

\* C26: a key that the searchobj or the current values of the request
\* hold is found with a value the request supplies, whatever the sections
\* hold for it.
C26_RequestOverridesStore ==
    (/\ pc = "done"
     /\ request.key = "qux"
     /\ "qux" \in DOMAIN request.opt.searchobj \cup DOMAIN request.opt.curvals)
        => /\ err = "none"
           /\ result.found
           /\ result.value \in
                 {request.opt.searchobj[k] : k \in DOMAIN request.opt.searchobj \cap {"qux"}}
                     \cup {request.opt.curvals[k] : k \in DOMAIN request.opt.curvals \cap {"qux"}}

\* C26 witness: qux is 2 in baz, the first section, and the searchobj
\* {qux: 4} made the search return 4.
C26_Witness ==
    /\ SearchReturned
    /\ request.key = "qux"
    /\ DOMAIN request.opt.searchobj = {"qux"}
    /\ DOMAIN request.opt.curvals = {}
    /\ HoldersInOrder("qux") # {}
    /\ FirstHolder("qux") = "baz"
    /\ result.value = IntValue(<<"4">>)

(***************************************************************************)
(* Part 5: BpsCore.create_submission and transform.                        *)
(*                                                                         *)
(* An attribute that is None or an object is a sequence: empty for None,   *)
(* of one element for an object.  A node name is a record of its prefix,   *)
(* its number and its label: "%06d" % n has the empty prefix, "ds%06d" % n *)
(* the prefix ds, qgraph_<nodename> the prefix qgraph_ and the number of   *)
(* the node, init_<label> the prefix init_ and the label.                  *)
(***************************************************************************)
FILENODE == 0

TASKNODE == 1

\* An attribute that is None.
Unset == <<>>

Some(object) == <<object>>

NodeName(prefix, number, label) ==
    [prefix |-> prefix, number |-> number, label |-> label]

\* "%06d" % number
Numbered(number) ==
    NodeName("", number, "")

\* dict[key] = value
setitem(dict, key, value) ==
    [k \in DOMAIN dict \cup {key} |-> IF k = key THEN value ELSE dict[k]]

\* networkx.DiGraph(): the nodes in insertion order, their attributes and
\* the edges.
DiGraph ==
    [nodes |-> <<>>, attrs |-> <<>>, edges |-> {}]

number_of_nodes(graph) ==
    Len(graph.nodes)

\* DiGraph.add_node(name, node_type=..., task_abbrev=...): a new node is
\* appended; the attributes given replace those of a node that exists.
\* task_abbrev is a sequence, empty when the call does not pass it.
add_node(graph, name, node_type, task_abbrev) ==
    IF name \in DOMAIN graph.attrs
    THEN [graph EXCEPT !.attrs =
             setitem(@, name,
                     [node_type |-> node_type,
                      task_abbrev |-> IF task_abbrev = <<>>
                                      THEN graph.attrs[name].task_abbrev
                                      ELSE task_abbrev])]
    ELSE [graph EXCEPT !.nodes = Append(@, name),
                       !.attrs = setitem(@, name,
                                         [node_type |-> node_type,
                                          task_abbrev |-> task_abbrev])]

\* DiGraph.add_edge(u, v), both nodes being in the graph.
add_edge(graph, u, v) ==
    [graph EXCEPT !.edges = @ \cup {<<u, v>>}]

\* _create_science_graph, the loop over the outputs of one quantum: a
\* dataset node each, fed by the task node.
RECURSIVE add_outputs(_, _, _, _)
add_outputs(graph, dcnt, tnode_name, outputs) ==
    IF outputs = 0
    THEN [graph |-> graph, dcnt |-> dcnt]
    ELSE LET fnode_name == NodeName("ds", dcnt + 1, "")
         IN  add_outputs(add_edge(add_node(graph, fnode_name, FILENODE, <<>>),
                                  tnode_name, fnode_name),
                         dcnt + 1, tnode_name, outputs - 1)

\* _create_science_graph, the loop over the nodes of the quantum graph.
RECURSIVE science_nodes(_, _, _)
science_nodes(graph, dcnt, qgraph) ==
    IF qgraph = <<>>
    THEN graph
    ELSE LET node == Head(qgraph)
             tnode_name == Numbered(node.number)
             added == add_outputs(add_node(graph, tnode_name, TASKNODE, <<node.label>>),
                                  dcnt, tnode_name, node.outputs)
         IN  science_nodes(added.graph, added.dcnt, Tail(qgraph))

\* pipeline_task_labels.keys(): the labels in the order of their first
\* quantum.
RECURSIVE pipeline_task_labels(_, _)
pipeline_task_labels(qgraph, seen) ==
    IF qgraph = <<>>
    THEN seen
    ELSE pipeline_task_labels(
             Tail(qgraph),
             IF \E i \in DOMAIN seen : seen[i] = Head(qgraph).label
             THEN seen
             ELSE Append(seen, Head(qgraph).label))

\* _create_science_graph: the science graph and the pipeline.
create_science_graph(cfg, qgraph) ==
    [sci_graph |-> science_nodes(DiGraph, 0, qgraph),
     pipeline |-> IF "pipeline" \in DOMAIN cfg
                  THEN cfg["pipeline"]
                  ELSE pipeline_task_labels(qgraph, <<>>)]

\* self.config.get("runInit", "{default: False}"): the value configured,
\* else the default, a non-empty string and so true.
run_init(cfg) ==
    IF "runInit" \in DOMAIN cfg THEN cfg["runInit"] ELSE TRUE

\* _update_task: the searches with required = True raise KeyError when the
\* key is not configured.
update_task(cfg) ==
    IF "runQuantumExec" \in DOMAIN cfg THEN "none" ELSE "KeyError"

\* _create_workflow_graph, the body of the loop over nodelist.  loop holds
\* the graph and the local variables ncnt, taskcnts, init_nodes and
\* fnode_name of the function, and the exception raised if any.
visit_node(cfg, loop, nodename) ==
    LET node == loop.graph.attrs[nodename]
    IN  IF node.node_type = FILENODE
        THEN loop
        ELSE IF node.node_type # TASKNODE
        THEN [loop EXCEPT !.err = "ValueError"]
        ELSE
        LET task_abbrev == node.task_abbrev[1]
            unit_counted == setitem(loop.taskcnts, task_abbrev,
                                    IF task_abbrev \in DOMAIN loop.taskcnts
                                    THEN loop.taskcnts[task_abbrev] + 1
                                    ELSE 1)
            qnode_name == NodeName("qgraph_", nodename.number, "")
            with_qnode == add_node(loop.graph, qnode_name, FILENODE, <<>>)
            with_qedge == add_edge(with_qnode, qnode_name, nodename)
        IN  IF update_task(cfg) # "none"
            THEN [loop EXCEPT !.graph = with_qnode,
                              !.ncnt = @ + 1,
                              !.taskcnts = unit_counted,
                              !.err = update_task(cfg)]
            ELSE IF ~run_init(cfg)
            THEN [loop EXCEPT !.graph = with_qedge,
                              !.ncnt = @ + 1,
                              !.taskcnts = unit_counted]
            ELSE IF task_abbrev \in DOMAIN loop.init_nodes
            THEN [loop EXCEPT !.graph = add_edge(with_qedge, loop.fnode_name[1], nodename),
                              !.ncnt = @ + 1,
                              !.taskcnts = unit_counted]
            ELSE LET tnode_name == NodeName("init_", 0, task_abbrev)
                     fnode_name == Numbered(loop.ncnt + 3)
                     with_tnode == add_node(with_qedge, tnode_name, TASKNODE, <<task_abbrev>>)
                     with_fnode == add_node(with_tnode, fnode_name, FILENODE, <<>>)
                     with_edges == add_edge(add_edge(with_fnode, tnode_name, fnode_name),
                                            qnode_name, tnode_name)
                 IN  [loop EXCEPT !.graph = add_edge(with_edges, fnode_name, nodename),
                                  !.ncnt = @ + 3,
                                  !.taskcnts = setitem(unit_counted, task_abbrev,
                                                       unit_counted[task_abbrev] + 1),
                                  !.init_nodes = setitem(@, task_abbrev,
                                                         [task |-> tnode_name,
                                                          file |-> fnode_name]),
                                  !.fnode_name = Some(fnode_name)]

\* _create_workflow_graph, the loop over nodelist: it ends at the first
\* exception.
RECURSIVE visit_nodes(_, _, _)
visit_nodes(cfg, loop, nodelist) ==
    IF nodelist = <<>> \/ loop.err # "none"
    THEN loop
    ELSE visit_nodes(cfg, visit_node(cfg, loop, Head(nodelist)), Tail(nodelist))

\* _link_init_nodes: an edge from the init file node of each label of the
\* pipeline to the init task node of the next one; KeyError at the first
\* label that has no init nodes.
RECURSIVE link_init_nodes(_, _, _, _)
link_init_nodes(graph, init_nodes, task_abbrev_list, abbrev_id) ==
    IF abbrev_id > Len(task_abbrev_list)
    THEN [graph |-> graph, err |-> "none"]
    ELSE IF \/ task_abbrev_list[abbrev_id] \notin DOMAIN init_nodes
            \/ task_abbrev_list[abbrev_id - 1] \notin DOMAIN init_nodes
         THEN [graph |-> graph, err |-> "KeyError"]
         ELSE link_init_nodes(
                  add_edge(graph,
                           init_nodes[task_abbrev_list[abbrev_id - 1]].file,
                           init_nodes[task_abbrev_list[abbrev_id]].task),
                  init_nodes, task_abbrev_list, abbrev_id + 1)

\* _create_workflow_graph: the workflow graph as far as it was built, the
\* init_nodes dict and the exception raised if any.
create_workflow_graph(cfg, sci_graph, pipeline) ==
    LET loop == visit_nodes(cfg,
                            [graph |-> sci_graph,
                             ncnt |-> number_of_nodes(sci_graph),
                             taskcnts |-> <<>>,
                             init_nodes |-> <<>>,
                             fnode_name |-> Unset,
                             err |-> "none"],
                            sci_graph.nodes)
        linked == IF run_init(cfg)
                  THEN link_init_nodes(loop.graph, loop.init_nodes, pipeline, 2)
                  ELSE [graph |-> loop.graph, err |-> "none"]
    IN  IF loop.err # "none"
        THEN [gen_wf_graph |-> loop.graph, init_nodes |-> loop.init_nodes,
              err |-> loop.err]
        ELSE IF linked.err # "none"
        THEN [gen_wf_graph |-> linked.graph, init_nodes |-> loop.init_nodes,
              err |-> linked.err]
        ELSE [gen_wf_graph |-> linked.graph, init_nodes |-> loop.init_nodes,
              err |-> IF \A i \in DOMAIN pipeline : pipeline[i] \in DOMAIN loop.taskcnts
                      THEN "none"
                      ELSE "KeyError"]

(***************************************************************************)
(* The state machine of a submission: BpsCore.create_submission on a new   *)
(* BpsCore, one step per method it calls, or transform, one step per       *)
(* function it calls.  request names the entry point.  The quantum graph   *)
(* read is a sequence of quanta, each with its node number, its task       *)
(* label and the number of its output datasets; node numbers are distinct  *)
(* and need not be consecutive (save_qg_subgraph writes subsets that keep  *)
(* the numbers of their nodes).                                            *)
(***************************************************************************)
MaxQuanta == 3

MaxNumber == 5

QuantumGraphs ==
    UNION {{[i \in 1..n |-> [number |-> numbers[i], label |-> labels[i], outputs |-> outputs]] :
               numbers \in {f \in [1..n -> 1..MaxNumber] :
                               \A i, j \in 1..n : f[i] = f[j] => i = j},
               labels \in [1..n -> {"a", "b"}],
               outputs \in 0..1} :
           n \in 0..MaxQuanta}

\* A configuration of BpsCore: each argument is empty or holds the value
\* of its key.
core_config(runInit, pipeline, qgraph_file, runQuantumExec) ==
    LET keys == (IF runInit # <<>> THEN {"runInit"} ELSE {})
                    \cup (IF pipeline # <<>> THEN {"pipeline"} ELSE {})
                    \cup (IF qgraph_file # <<>> THEN {"qgraph_file"} ELSE {})
                    \cup (IF runQuantumExec # <<>> THEN {"runQuantumExec"} ELSE {})
    IN  [k \in keys |-> CASE k = "runInit" -> runInit[1]
                          [] k = "pipeline" -> pipeline[1]
                          [] k = "qgraph_file" -> qgraph_file[1]
                          [] OTHER -> runQuantumExec[1]]

CoreConfigs ==
    {core_config(runInit, pipeline, qgraph_file, runQuantumExec) :
        runInit \in {<<>>, <<TRUE>>, <<FALSE>>},
        pipeline \in {<<>>, << <<"a", "b">> >>, << <<"b", "a">> >>},
        qgraph_file \in {<<>>, <<"q.pickle">>},
        runQuantumExec \in {<<>>, <<"pipetask">>}}

\* The configurations of transform: those of add_final_job, whenCreate
\* also being TRANSFORM, with or without uniqProcName.
TransformConfigs ==
    LET base == Configs \cup
                    {[k \in K \cup {".executionButler.whenCreate"} |->
                         IF k = ".executionButler.whenCreate" THEN when_create ELSE ALWAYS] :
                        K \in SUBSET {".finalJob.whenRun"},
                        when_create \in {TRANSFORM, <<"t", "r", "a", "n", "s", "f", "o", "r", "m">>}}
    IN  base \cup {setitem(cfg, "uniqProcName", <<"u">>) : cfg \in base}

\* BpsCore.__init__: the attributes create_submission sets.
BpsCore ==
    [butler |-> Unset, pipeline |-> <<>>, qgraph_filename |-> Unset, qgraph |-> Unset,
     sci_graph |-> Unset, gen_wf_graph |-> Unset, gen_wf_config |-> Unset,
     workflow |-> Unset]

InitSubmission ==
    /\ \/ /\ request = "create_submission"
          /\ pc = "create_submission"
          /\ config \in CoreConfigs
          /\ self = BpsCore
       \/ /\ request = "transform"
          /\ pc = "transform"
          /\ config \in TransformConfigs
          /\ self = <<>>
    /\ generic_workflow = GenericWorkflow
    /\ func = NoFunc
    /\ invoked = <<>>
    /\ err = "none"
    /\ result = "none"
    /\ environ = {}
    /\ found = NothingFound
    /\ job_values = default_gwjob
    /\ gwjob = default_gwjob
    /\ before = default_gwjob
    /\ folded = <<>>

\* Mutant of create_submission_calls: the backend comes before the
\* workflow graph.
create_submission_calls_implement_early ==
    <<"_read_quantum_graph", "_implement_workflow", "_create_generic_workflow",
      "_create_generic_workflow_config">>

\* The methods create_submission calls once the quantum graph file is
\* there, in the order of its statements.
create_submission_calls ==
    <<"_read_quantum_graph", "_create_generic_workflow", "_create_generic_workflow_config",
      "_implement_workflow">>

\* Where create_submission goes on when a method returned.
after(method) ==
    LET i == CHOOSE k \in DOMAIN create_submission_calls : create_submission_calls[k] = method
    IN  IF i < Len(create_submission_calls)
        THEN create_submission_calls[i + 1]
        ELSE "done"

\* create_submission up to the quantum graph file: the Butler, then the
\* copy of the file the configuration names, or the call that generates
\* one.
CreateSubmission ==
    /\ pc = "create_submission"
    /\ LET searched == search(config, "qgraph_file")
       IN  IF searched.found
           THEN /\ self' = [self EXCEPT !.butler = Some("Butler"),
                                        !.qgraph_filename = Some(searched.value)]
                /\ pc' = create_submission_calls[1]
           ELSE /\ self' = [self EXCEPT !.butler = Some("Butler")]
                /\ pc' = "_create_quantum_graph"
    /\ UNCHANGED <<request, result, err, environ>>
    /\ UNCHANGED finalvars
    /\ UNCHANGED aggvars

\* _create_quantum_graph: the command exits with any status.
CreateQuantumGraph ==
    /\ pc = "_create_quantum_graph"
    /\ self' = [self EXCEPT !.qgraph_filename = Some("uniqProcName.pickle")]
    /\ \E status \in 0..1 :
          IF status # 0
          THEN err' = "RuntimeError" /\ pc' = "raised"
          ELSE err' = err /\ pc' = create_submission_calls[1]
    /\ UNCHANGED <<request, result, environ>>
    /\ UNCHANGED finalvars
    /\ UNCHANGED aggvars

\* _read_quantum_graph: the file holds any quantum graph.
ReadQuantumGraph ==
    /\ pc = "_read_quantum_graph"
    /\ \E qgraph \in QuantumGraphs :
          /\ self' = [self EXCEPT !.qgraph = Some(qgraph)]
          /\ IF Len(qgraph) = 0
             THEN err' = "RuntimeError" /\ pc' = "raised"
             ELSE err' = err /\ pc' = after("_read_quantum_graph")
    /\ UNCHANGED <<request, result, environ>>
    /\ UNCHANGED finalvars
    /\ UNCHANGED aggvars

\* BpsCore._create_generic_workflow: the science graph, then the workflow
\* graph, which is an attribute from its first statement on.
CreateWorkflowGraph ==
    /\ pc = "_create_generic_workflow"
    /\ LET science == create_science_graph(config, self.qgraph[1])
           built == create_workflow_graph(config, science.sci_graph, science.pipeline)
       IN  /\ self' = [self EXCEPT !.sci_graph = Some(science.sci_graph),
                                   !.pipeline = science.pipeline,
                                   !.gen_wf_graph = Some(built.gen_wf_graph)]
           /\ err' = built.err
           /\ pc' = IF built.err = "none" THEN after("_create_generic_workflow") ELSE "raised"
    /\ UNCHANGED <<request, result, environ>>
    /\ UNCHANGED finalvars
    /\ UNCHANGED aggvars

\* BpsCore._create_generic_workflow_config.
CreateWorkflowConfig ==
    /\ pc = "_create_generic_workflow_config"
    /\ self' = [self EXCEPT !.gen_wf_config = Some(config)]
    /\ pc' = after("_create_generic_workflow_config")
    /\ UNCHANGED <<request, result, err, environ>>
    /\ UNCHANGED finalvars
    /\ UNCHANGED aggvars

\* _implement_workflow: the engine class cannot be imported, or the
\* backend is invoked and raises or returns the workflow.
ImplementWorkflow ==
    /\ pc = "_implement_workflow"
    /\ \E outcome \in {"ImportError", "raised", "returned"} :
          /\ invoked' = IF outcome = "ImportError"
                        THEN invoked
                        ELSE Append(invoked, "implement_workflow")
          /\ self' = IF outcome = "returned"
                     THEN [self EXCEPT !.workflow =
                              Some([gen_wf_graph |-> self.gen_wf_graph,
                                    gen_wf_config |-> self.gen_wf_config])]
                     ELSE self
          /\ err' = IF outcome = "returned" THEN err
                    ELSE IF outcome = "raised" THEN "RuntimeError" ELSE "ImportError"
          /\ pc' = IF outcome = "returned" THEN after("_implement_workflow") ELSE "raised"
    /\ UNCHANGED <<request, result, environ>>
    /\ UNCHANGED <<config, generic_workflow, func>>
    /\ UNCHANGED aggvars

\* transform up to its call of create_generic_workflow: the execution
\* butler is created when whenCreate says so, which may fail, and
\* uniqProcName is required.
Transform ==
    /\ pc = "transform"
    /\ \E created \in BOOLEAN :
          LET when_create == search(config, ".executionButler.whenCreate").value
          IN  IF upper(when_create) = TRANSFORM /\ ~created
              THEN err' = "RuntimeError" /\ pc' = "raised"
              ELSE IF "uniqProcName" \notin DOMAIN config
                   THEN err' = "KeyError" /\ pc' = "raised"
                   ELSE err' = err /\ pc' = "create_generic_workflow"
    /\ UNCHANGED <<request, self, result, environ>>
    /\ UNCHANGED finalvars
    /\ UNCHANGED aggvars

\* transform after create_generic_workflow returned: the configuration of
\* the workflow is created and the pair returned.
TransformReturn ==
    /\ pc = "done"
    /\ request = "transform"
    /\ err = "none"
    /\ result' = [generic_workflow |-> generic_workflow,
                  generic_workflow_config |-> config]
    /\ pc' = "returned"
    /\ UNCHANGED <<request, self, err, environ>>
    /\ UNCHANGED finalvars
    /\ UNCHANGED aggvars

NextSubmission ==
    \/ CreateSubmission
    \/ CreateQuantumGraph
    \/ ReadQuantumGraph
    \/ CreateWorkflowGraph
    \/ CreateWorkflowConfig
    \/ ImplementWorkflow
    \/ Transform
    \/ CreateGenericWorkflow
    \/ AddFinalJob
    \/ CallAddFinalJob
    \/ CallAddMergeJob
    \/ TransformReturn

SpecSubmission ==
    InitSubmission /\ [][NextSubmission]_vars

(***************************************************************************)
(* Properties of create_submission and transform.                          *)
(***************************************************************************)
BackendInvoked ==
    \E i \in DOMAIN invoked : invoked[i] = "implement_workflow"

\* The workflow graph of self is the whole graph _create_workflow_graph
\* builds from the quantum graph read, and building it raised nothing.
WholeGraphBuilt ==
    /\ self.qgraph # Unset
    /\ Len(self.qgraph[1]) > 0
    /\ self.sci_graph # Unset
    /\ self.gen_wf_graph # Unset
    /\ LET science == create_science_graph(config, self.qgraph[1])
           built == create_workflow_graph(config, science.sci_graph, science.pipeline)
       IN  /\ built.err = "none"
           /\ self.sci_graph[1] = science.sci_graph
           /\ self.gen_wf_graph[1] = built.gen_wf_graph

\* C27: in create_submission the backend is invoked only when the quantum
\* graph was read and is not empty, the whole workflow graph was built
\* and the workflow configuration was created; once a step has raised the
\* backend is not invoked any more, and self.workflow is None unless the
\* backend returned.  transform has returned its pair only when
\* add_final_job completed and nothing raised, and the pair holds the
\* workflow add_final_job left.
C27_NoPartialDagDownstream ==
    /\ request = "create_submission" =>
          /\ BackendInvoked => WholeGraphBuilt /\ self.gen_wf_config # Unset
          /\ self.workflow # Unset => BackendInvoked /\ err = "none"
          /\ (pc = "raised" /\ err \in {"KeyError", "ValueError", "ImportError"})
                 => ~BackendInvoked
          /\ (pc = "raised" /\ self.gen_wf_config = Unset) => ~BackendInvoked
    /\ request = "transform" =>
          /\ pc = "returned" =>
                /\ err = "none"
                /\ invoked # <<>>
                /\ invoked[Len(invoked)] = func
                /\ result.generic_workflow = generic_workflow
          /\ err # "none" => pc # "returned"

\* C27 witness: create_submission ran to its end on a quantum graph of
\* three quanta, the backend was invoked and self.workflow is set.
C27_Witness ==
    /\ request = "create_submission"
    /\ pc = "done"
    /\ BackendInvoked
    /\ self.workflow # Unset
    /\ Len(self.qgraph[1]) = 3
    /\ WholeGraphBuilt

\* transform returned a workflow with its final job attached.
C27_TransformReturned ==
    /\ request = "transform"
    /\ pc = "returned"
    /\ FinalJobsAttached = 1

(***************************************************************************)
(* Properties of the init nodes of _create_workflow_graph.                 *)
(***************************************************************************)
\* _create_generic_workflow returned with runInit enabled.
InitJobsBuilt ==
    /\ request = "create_submission"
    /\ pc \in {"_create_generic_workflow_config", "_implement_workflow", "done"}
    /\ run_init(config)

\* The init_nodes dict _create_workflow_graph ended with.
InitNodes ==
    create_workflow_graph(config, self.sci_graph[1], self.pipeline).init_nodes

\* The execution units: the task nodes of the science graph.
UnitNodes ==
    {n \in DOMAIN self.sci_graph[1].attrs :
        self.sci_graph[1].attrs[n].node_type = TASKNODE}

UnitLabel(n) ==
    self.sci_graph[1].attrs[n].task_abbrev[1]

UnitLabels ==
    {UnitLabel(n) : n \in UnitNodes}

InitFileNodes ==
    {InitNodes[label].file : label \in DOMAIN InitNodes}

InitTaskNodes ==
    {InitNodes[label].task : label \in DOMAIN InitNodes}

\* The label an init node was made for.
InitLabel(n) ==
    CHOOSE label \in DOMAIN InitNodes :
        InitNodes[label].task = n \/ InitNodes[label].file = n

\* C28: when _create_generic_workflow returned with runInit enabled, each
\* label of the graph has one init task node init_<label> and one init
\* file node, both nodes the function created (the graph has as many new
\* nodes as units, for their quantum files, and two per label), and the
\* edges between init nodes of different labels are those from the init
\* file node of a pipeline label to the init task node of the next one.
C28_OneInitJobPerLabelChained ==
    InitJobsBuilt =>
        LET graph == self.gen_wf_graph[1]
            sci_graph == self.sci_graph[1]
        IN  /\ DOMAIN InitNodes = UnitLabels
            /\ \A label \in UnitLabels :
                  /\ InitNodes[label].task = NodeName("init_", 0, label)
                  /\ InitNodes[label].task \in DOMAIN graph.attrs
                  /\ graph.attrs[InitNodes[label].task].node_type = TASKNODE
                  /\ InitNodes[label].file \in DOMAIN graph.attrs
                  /\ InitNodes[label].file \notin DOMAIN sci_graph.attrs
                  /\ graph.attrs[InitNodes[label].file].node_type = FILENODE
            /\ Cardinality(InitFileNodes) = Cardinality(UnitLabels)
            /\ number_of_nodes(graph) =
                  number_of_nodes(sci_graph) + Cardinality(UnitNodes)
                      + 2 * Cardinality(UnitLabels)
            /\ {e \in graph.edges :
                  /\ e[1] \in InitFileNodes \cup InitTaskNodes
                  /\ e[2] \in InitFileNodes \cup InitTaskNodes
                  /\ InitLabel(e[1]) # InitLabel(e[2])}
                 = {<<InitNodes[self.pipeline[i - 1]].file, InitNodes[self.pipeline[i]].task>> :
                       i \in 2..Len(self.pipeline)}

\* C29: when _create_generic_workflow returned with runInit enabled, each
\* execution unit has an edge from the init file node of its own label and
\* from no other init file node.
C29_UnitAfterOwnInitOnly ==
    InitJobsBuilt =>
        \A n \in UnitNodes :
            {f \in InitFileNodes : <<f, n>> \in self.gen_wf_graph[1].edges}
                = {InitNodes[UnitLabel(n)].file}

====
